---- MODULE Spec2Model ----
(***************************************************************************)
(* Quiz session engine of practice.py (class QuizMainWindow and the modal  *)
(* dialogs it opens), modelled as a state machine.                         *)
(*                                                                         *)
(* The program is a single-threaded Qt application.  Every handler runs on *)
(* the event loop; a handler that opens a modal dialog (QMessageBox,       *)
(* QDialog.exec) starts a nested event loop, and while that loop runs the  *)
(* QTimer events of the application are still delivered.  The nesting of   *)
(* modal dialogs is the variable `stack`; only the dialog on top of the    *)
(* stack takes user input, and with an empty stack the user acts on the    *)
(* main window.                                                            *)
(*                                                                         *)
(* The bank is a Python list of dicts.  QuizMainWindow stores references   *)
(* to these dicts (quiz_data[:] copies the list, not the dicts), so a      *)
(* session position is modelled as the identity of a bank dict and the     *)
(* order of a dict's "options" list lives in one place, `options`.         *)
(***************************************************************************)
EXTENDS Integers, Sequences, FiniteSets, TLC

\* ---------------------------------------------------------------- bounds
\* largest question count typed into the settings dialog when the whole
\* session machine is explored (Spec)
MaxCount == 1
\* largest question count typed into the settings dialog when construction
\* and restart are explored (SpecRestart); above the bank size, so that the
\* draw with repeats happens
MaxDraw == 3
\* the non-zero timer value offered by the settings dialog, in seconds
MaxTimer == 2
\* length of the break countdown; the program uses 15 * 60 (BreakDialog),
\* the model a short countdown with the same stop-at-zero logic
BreakSeconds == 2
\* number of times Restart is followed in one run
MaxRestarts == 1
\* longest finished session handed to the review with items and stored
\* answers of every shape (SpecReview)
MaxReview == 2
\* longest finished session handed to the review when only the score is of
\* interest; 8 is the shortest session with a percentage that ends in .5
MaxScored == 8
\* longest option list and largest token set handed to the resolver
\* (SpecResolve)
MaxOptions == 2
MaxTokens == 2
\* largest bank handed to start_with_settings_dialog where construction is
\* explored over banks of every size from 0 on (SpecStart); the count typed
\* into the dialog goes one above it
MaxBank == 3

\* the slides of a presentation
MaxSlides == 3

\* ------------------------------------------------------------------ bank
\* the compiled bank handed to start_with_settings_dialog: one single-choice
\* item and one multi-select item
Bank ==
  << [options |-> <<"a", "b">>, answer |-> {"a"},      multi |-> FALSE],
     [options |-> <<"c", "d">>, answer |-> {"c", "d"}, multi |-> TRUE] >>

BankIds == 1..Len(Bank)

\* ------------------------------------------------------- stored answers
\* user_answers entries: None, one option string, or a set of option strings
None == [kind |-> "none", val |-> {}]
Str(s) == [kind |-> "str", val |-> {s}]
SetOf(S) == [kind |-> "set", val |-> S]

\* `old` before any restart
NoOld == [present |-> FALSE]

\* `gw` where only the session machine is explored
NoWindow == [win |-> "none"]

\* a study variable in the specifications that do not explore it
Unused == [used |-> FALSE]

VARIABLES
  options,            \* bank dict id -> current order of its "options" list
  win,                \* "none" | "shown" | "closed": the current QuizMainWindow
  stack,              \* open modal dialogs, innermost last
  quiz,               \* self.quiz: sequence of bank dict ids
  user_answers,       \* self.user_answers
  flags,              \* self.flags (0-based indices)
  current_index,      \* self.current_index (0-based)
  selection,          \* what the answer widgets of the rendered question hold
  total_seconds,      \* self.total_seconds
  remaining_seconds,  \* self.remaining_seconds
  timer_active,       \* self.timer.isActive()
  break_taken,        \* self.break_taken
  test_mode,          \* self.test_mode
  allow_breaks,       \* self.allow_breaks
  was_running,        \* local of _take_break, live across dialog.exec()
  break_remaining,    \* BreakDialog.remaining
  break_timer_active, \* BreakDialog.timer.isActive()
  old,                \* the finished window a restart left behind
  nrestarts,          \* how many windows were created by Restart
  gw,                 \* the one-question window of the grading study
  app,                \* start_with_settings_dialog over a bank of any size
  deck,               \* the slides of a deck and the bank compiled from them
  resolve,            \* one call of _map_correct_tokens_to_options
  review,             \* a finished session and the ReviewPopup opened on it
  norm,               \* one call of normalize_quiz_records on one record
  notes,              \* one call of _read_notes_answer_and_reason
  last                \* history: the handler that ran last

vars == << options, win, stack, quiz, user_answers, flags, current_index,
           selection, total_seconds, remaining_seconds, timer_active,
           break_taken, test_mode, allow_breaks, was_running,
           break_remaining, break_timer_active, old, nrestarts, gw, app,
           deck, resolve, review, norm, notes, last >>

\* the variables of the studies of single functions (construction over any
\* bank, bank compilation, answer resolution, review, normalization, notes)
studies == << app, deck, resolve, review, norm, notes >>

\* the fields of one session the claims speak about
session == << user_answers, flags, current_index, remaining_seconds >>

\* --------------------------------------------------------------- helpers
Range(s) == {s[i] : i \in DOMAIN s}

Top == IF stack = <<>> THEN "main" ELSE stack[Len(stack)]

Pop == SubSeq(stack, 1, Len(stack) - 1)

Push(f) == Append(stack, f)

\* the process is running: some window or dialog is open
Alive == win = "shown" \/ stack # <<>>

\* the user can act on the main window
Idle == win = "shown" /\ stack = <<>>

Bijections(n) == {f \in [1..n -> 1..n] : \A i, j \in 1..n : i # j => f[i] # f[j]}

\* the outcomes of random.shuffle(s)
Shuffles(s) == {[i \in 1..Len(s) |-> s[f[i]]] : f \in Bijections(Len(s))}

\* the outcomes of random.sample(quiz_data, k) over the dicts `ids`: k
\* distinct dicts in any order
SampleOf(ids, k) ==
  {q \in [1..k -> ids] : \A i, j \in 1..k : i # j => q[i] # q[j]}

\* the outcomes of random.sample(bank, k): k distinct dicts in any order
SampleK(k) == SampleOf(BankIds, k)

\* _apply_quiz_settings drawing with replacement whenever a count is given
ApplySettingsWithReplacement(ids, num_questions, allow_repeats) ==
  IF ids = {} THEN {<<>>}
  ELSE IF num_questions <= 0 THEN SampleOf(ids, Cardinality(ids))
  ELSE [1..num_questions -> ids]

\* _apply_quiz_settings capping the size also when repeats are allowed
ApplySettingsCapped(ids, num_questions, allow_repeats) ==
  IF ids = {} THEN {<<>>}
  ELSE IF num_questions <= 0 THEN SampleOf(ids, Cardinality(ids))
  ELSE IF num_questions <= Cardinality(ids) THEN SampleOf(ids, num_questions)
  ELSE SampleOf(ids, Cardinality(ids))

\* QuizMainWindow._apply_quiz_settings over the dicts `ids` of quiz_data
ApplySettings(ids, num_questions, allow_repeats) ==
  IF ids = {} THEN {<<>>}
  ELSE IF num_questions <= 0 THEN SampleOf(ids, Cardinality(ids))
  ELSE IF num_questions <= Cardinality(ids) THEN SampleOf(ids, num_questions)
  ELSE IF allow_repeats THEN [1..num_questions -> ids]
  ELSE SampleOf(ids, Cardinality(ids))

\* QuizMainWindow._apply_quiz_settings over the bank
ApplyQuizSettings(num_questions, allow_repeats) ==
  ApplySettings(BankIds, num_questions, allow_repeats)

\* the loop "for q in self.quiz: random.shuffle(q['options'])" of __init__,
\* from position i on: the set of resulting option orders
RECURSIVE ShuffleFrom(_, _, _)
ShuffleFrom(i, q, opts) ==
  IF i > Len(q) THEN {opts}
  ELSE UNION { ShuffleFrom(i + 1, q, [opts EXCEPT ![q[i]] = p]) :
               p \in Shuffles(opts[q[i]]) }

\* the item at a session position
ItemAt(q, i) == Bank[q[i + 1]]

\* _render_current_question: the widgets are rebuilt and preset from the
\* stored answer (checkboxes from a stored set, radio buttons from a string)
Rendered(q, ua, i) ==
  IF q = <<>> THEN None
  ELSE IF ItemAt(q, i).multi
       THEN (IF ua[i + 1].kind = "set" THEN ua[i + 1] ELSE SetOf({}))
       ELSE (IF ua[i + 1].kind = "str" THEN ua[i + 1] ELSE None)

\* _save_current_selection writing to the first position
SaveFirstPosition(q, ua, i, sel) ==
  IF q = <<>> THEN ua ELSE [ua EXCEPT ![1] = sel]

\* _save_current_selection
SaveCurrentSelection(q, ua, i, sel) ==
  IF q = <<>> THEN ua ELSE [ua EXCEPT ![i + 1] = sel]

\* the test with the empty-set case left out
UnansweredNoneOnly(ua) ==
  \E i \in DOMAIN ua : ua[i].kind = "none"

\* the "unanswered" test of _finish
Unanswered(ua) ==
  \E i \in DOMAIN ua :
     ua[i].kind = "none" \/ (ua[i].kind = "set" /\ ua[i].val = {})

\* the guard without "not self.break_taken"
BreakAllowedNoTaken == allow_breaks /\ total_seconds > 0

\* the guard without "self.total_seconds <= 0"
BreakAllowedNoTimer == allow_breaks /\ ~break_taken

\* _update_break_enabled / the guard of _take_break
BreakAllowed == allow_breaks /\ total_seconds > 0 /\ ~break_taken

Max0(n) == IF n > 0 THEN n ELSE 0

\* ------------------------------------------------------------------ Init
\* main_open_pptx_and_run: the bank is compiled and the settings dialog
\* (QuestionPopup) is open; no window exists yet
Init ==
  /\ options = [b \in BankIds |-> Bank[b].options]
  /\ win = "none"
  /\ stack = << "settings" >>
  /\ quiz = <<>>
  /\ user_answers = <<>>
  /\ flags = {}
  /\ current_index = 0
  /\ selection = None
  /\ total_seconds = 0
  /\ remaining_seconds = 0
  /\ timer_active = FALSE
  /\ break_taken = FALSE
  /\ test_mode = FALSE
  /\ allow_breaks = TRUE
  /\ was_running = FALSE
  /\ break_remaining = 0
  /\ break_timer_active = FALSE
  /\ old = NoOld
  /\ nrestarts = 0
  /\ app = Unused
  /\ deck = Unused
  /\ resolve = Unused
  /\ review = Unused
  /\ norm = Unused
  /\ notes = Unused
  /\ gw = NoWindow
  /\ last = "init"

\* ------------------------------------------------------------- construct
\* QuizMainWindow.__init__ with the settings tuple of the dialog
Construct(count, timer_seconds, allow_repeats, tm, ab) ==
  \E q \in ApplyQuizSettings(count, allow_repeats) :
  \E opts \in ShuffleFrom(1, q, options) :
     /\ options' = opts
     /\ quiz' = q
     /\ user_answers' = [i \in 1..Len(q) |-> None]
     /\ flags' = {}
     /\ break_taken' = FALSE
     /\ test_mode' = tm
     /\ allow_breaks' = ab
     /\ total_seconds' = Max0(timer_seconds)
     /\ remaining_seconds' = Max0(timer_seconds)
     /\ timer_active' = (Max0(timer_seconds) > 0)
     /\ current_index' = 0
     /\ selection' = Rendered(q, [i \in 1..Len(q) |-> None], 0)
     /\ was_running' = FALSE
     /\ break_remaining' = 0
     /\ break_timer_active' = FALSE
     /\ win' = "shown"

\* the finished window as a restart leaves it: closed, its QTimer never
\* stopped (with a timer it would go on ticking; SpecRestart runs untimed
\* sessions)
Snapshot ==
  [present |-> TRUE, quiz |-> quiz, user_answers |-> user_answers,
   flags |-> flags, current_index |-> current_index,
   remaining_seconds |-> remaining_seconds, timer_active |-> timer_active]

\* QuestionPopup.on_ok + start_with_settings_dialog: first window, or
\* _open_review_dialog._restart followed by ReviewPopup._do_restart's accept()
SettingsOk(counts, timers, modes) ==
  /\ Top = "settings"
  /\ \E count \in counts, timer_seconds \in timers,
        allow_repeats \in BOOLEAN, tm \in modes, ab \in modes :
        Construct(count, timer_seconds, allow_repeats, tm, ab)
  /\ IF Len(stack) = 1
       THEN /\ old' = old
            /\ nrestarts' = nrestarts
       ELSE /\ old' = Snapshot
            /\ nrestarts' = nrestarts + 1
  /\ stack' = <<>>
  /\ last' = "settings_ok"
  /\ UNCHANGED << gw, studies >>

\* QuestionPopup rejected: no window is created; after a restart request
\* the review dialog is accepted all the same and the process ends
SettingsCancel ==
  /\ Top = "settings"
  /\ stack' = <<>>
  /\ last' = "settings_cancel"
  /\ UNCHANGED << gw, studies >>
  /\ UNCHANGED << options, win, quiz, user_answers, flags, current_index,
                  selection, total_seconds, remaining_seconds, timer_active,
                  break_taken, test_mode, allow_breaks, was_running,
                  break_remaining, break_timer_active, old, nrestarts >>


\* ------------------------------------------------------ answer widgets
\* the user clicks an option of the rendered question: a checkbox toggles,
\* a radio button of the exclusive group becomes the checked one
Select(o) ==
  /\ Idle
  /\ o \in Range(options[quiz[current_index + 1]])
  /\ selection' =
       IF ItemAt(quiz, current_index).multi
         THEN SetOf(IF o \in selection.val THEN selection.val \ {o}
                    ELSE selection.val \cup {o})
         ELSE Str(o)
  /\ last' = "select"
  /\ UNCHANGED << gw, studies >>
  /\ UNCHANGED << options, win, stack, quiz, user_answers, flags,
                  current_index, total_seconds, remaining_seconds,
                  timer_active, break_taken, test_mode, allow_breaks,
                  was_running, break_remaining, break_timer_active, old,
                  nrestarts >>

\* ------------------------------------------------------------ navigation
\* QuizMainWindow._prev
Prev ==
  /\ Idle
  /\ LET ua == SaveCurrentSelection(quiz, user_answers, current_index, selection)
         ni == IF current_index > 0 THEN current_index - 1 ELSE current_index
     IN /\ user_answers' = ua
        /\ current_index' = ni
        /\ selection' = IF current_index > 0 THEN Rendered(quiz, ua, ni)
                        ELSE selection
  /\ last' = "prev"
  /\ UNCHANGED << gw, studies >>
  /\ UNCHANGED << options, win, stack, quiz, flags, total_seconds,
                  remaining_seconds, timer_active, break_taken, test_mode,
                  allow_breaks, was_running, break_remaining,
                  break_timer_active, old, nrestarts >>

\* _next without the _save_current_selection call
NextNoSave ==
  /\ Idle
  /\ LET ua == user_answers
         mv == current_index < Len(quiz) - 1
         ni == IF mv THEN current_index + 1 ELSE current_index
     IN /\ user_answers' = ua
        /\ current_index' = ni
        /\ selection' = IF mv THEN Rendered(quiz, ua, ni) ELSE selection
  /\ last' = "next"
  /\ UNCHANGED << gw, studies >>
  /\ UNCHANGED << options, win, stack, quiz, flags, total_seconds,
                  remaining_seconds, timer_active, break_taken, test_mode,
                  allow_breaks, was_running, break_remaining,
                  break_timer_active, old, nrestarts >>

\* QuizMainWindow._next
Next_ ==
  /\ Idle
  /\ LET ua == SaveCurrentSelection(quiz, user_answers, current_index, selection)
         mv == current_index < Len(quiz) - 1
         ni == IF mv THEN current_index + 1 ELSE current_index
     IN /\ user_answers' = ua
        /\ current_index' = ni
        /\ selection' = IF mv THEN Rendered(quiz, ua, ni) ELSE selection
  /\ last' = "next"
  /\ UNCHANGED << gw, studies >>
  /\ UNCHANGED << options, win, stack, quiz, flags, total_seconds,
                  remaining_seconds, timer_active, break_taken, test_mode,
                  allow_breaks, was_running, break_remaining,
                  break_timer_active, old, nrestarts >>

\* _toggle_flag that only ever adds the index
ToggleFlagAddOnly ==
  /\ Idle
  /\ flags' = flags \cup {current_index}
  /\ selection' = Rendered(quiz, user_answers, current_index)
  /\ last' = "toggle_flag"
  /\ UNCHANGED << gw, studies >>
  /\ UNCHANGED << options, win, stack, quiz, user_answers, current_index,
                  total_seconds, remaining_seconds, timer_active,
                  break_taken, test_mode, allow_breaks, was_running,
                  break_remaining, break_timer_active, old, nrestarts >>

\* QuizMainWindow._toggle_flag; it ends with _render_current_question,
\* which rebuilds the answer widgets from the stored answer
ToggleFlag ==
  /\ Idle
  /\ flags' = IF current_index \in flags THEN flags \ {current_index}
              ELSE flags \cup {current_index}
  /\ selection' = Rendered(quiz, user_answers, current_index)
  /\ last' = "toggle_flag"
  /\ UNCHANGED << gw, studies >>
  /\ UNCHANGED << options, win, stack, quiz, user_answers, current_index,
                  total_seconds, remaining_seconds, timer_active,
                  break_taken, test_mode, allow_breaks, was_running,
                  break_remaining, break_timer_active, old, nrestarts >>

\* QuizMainWindow._open_flag_list: without flags a notice, else the modal
\* list of the flagged positions
OpenFlagList ==
  /\ Idle
  /\ stack' = Push(IF flags = {} THEN "flag_info" ELSE "flag_list")
  /\ last' = "open_flag_list"
  /\ UNCHANGED << gw, studies >>
  /\ UNCHANGED << options, win, quiz, user_answers, flags, current_index,
                  selection, total_seconds, remaining_seconds, timer_active,
                  break_taken, test_mode, allow_breaks, was_running,
                  break_remaining, break_timer_active, old, nrestarts >>

\* the notice "No flagged questions." is dismissed
FlagInfoOk ==
  /\ Top = "flag_info"
  /\ stack' = Pop
  /\ last' = "flag_info_ok"
  /\ UNCHANGED << gw, studies >>
  /\ UNCHANGED << options, win, quiz, user_answers, flags, current_index,
                  selection, total_seconds, remaining_seconds, timer_active,
                  break_taken, test_mode, allow_breaks, was_running,
                  break_remaining, break_timer_active, old, nrestarts >>

\* _go saving the selection on screen before the jump
FlagGoSaving(i) ==
  /\ Top = "flag_list"
  /\ i \in flags
  /\ user_answers' =
       SaveCurrentSelection(quiz, user_answers, current_index, selection)
  /\ current_index' = i
  /\ stack' = Pop
  /\ selection' = Rendered(quiz, user_answers', i)
  /\ last' = "flag_go"
  /\ UNCHANGED << gw, studies >>
  /\ UNCHANGED << options, win, quiz, flags, total_seconds,
                  remaining_seconds, timer_active, break_taken, test_mode,
                  allow_breaks, was_running, break_remaining,
                  break_timer_active, old, nrestarts >>

\* _open_flag_list._go with the row of flagged position i selected: the
\* dialog is accepted and the question is rendered from the stored answer;
\* the selection on screen before the jump is not saved (with no row
\* selected _go returns at once and nothing changes)
FlagGo(i) ==
  /\ Top = "flag_list"
  /\ i \in flags
  /\ current_index' = i
  /\ stack' = Pop
  /\ selection' = Rendered(quiz, user_answers, i)
  /\ last' = "flag_go"
  /\ UNCHANGED << gw, studies >>
  /\ UNCHANGED << options, win, quiz, user_answers, flags, total_seconds,
                  remaining_seconds, timer_active, break_taken, test_mode,
                  allow_breaks, was_running, break_remaining,
                  break_timer_active, old, nrestarts >>

\* the Close button of the flag list: dialog.reject
FlagClose ==
  /\ Top = "flag_list"
  /\ stack' = Pop
  /\ last' = "flag_close"
  /\ UNCHANGED << gw, studies >>
  /\ UNCHANGED << options, win, quiz, user_answers, flags, current_index,
                  selection, total_seconds, remaining_seconds, timer_active,
                  break_taken, test_mode, allow_breaks, was_running,
                  break_remaining, break_timer_active, old, nrestarts >>

\* --------------------------------------------------------- submit / check
\* QuizMainWindow._submit_current (the state it changes)
SubmitCurrent ==
  user_answers' = SaveCurrentSelection(quiz, user_answers, current_index, selection)

\* the Submit button
Submit ==
  /\ Idle
  /\ SubmitCurrent
  /\ last' = "submit"
  /\ UNCHANGED << gw, studies >>
  /\ UNCHANGED << options, win, stack, quiz, flags, current_index, selection,
                  total_seconds, remaining_seconds, timer_active,
                  break_taken, test_mode, allow_breaks, was_running,
                  break_remaining, break_timer_active, old, nrestarts >>

\* _check_current_answer without the test-mode return
CheckAlways ==
  /\ Idle
  /\ user_answers' =
       SaveCurrentSelection(quiz, user_answers, current_index, selection)
  /\ last' = "check"
  /\ UNCHANGED << gw, studies >>
  /\ UNCHANGED << options, win, stack, quiz, flags, current_index, selection,
                  total_seconds, remaining_seconds, timer_active,
                  break_taken, test_mode, allow_breaks, was_running,
                  break_remaining, break_timer_active, old, nrestarts >>

\* QuizMainWindow._check_current_answer
Check ==
  /\ Idle
  /\ user_answers' =
       IF test_mode THEN user_answers
       ELSE SaveCurrentSelection(quiz, user_answers, current_index, selection)
  /\ last' = "check"
  /\ UNCHANGED << gw, studies >>
  /\ UNCHANGED << options, win, stack, quiz, flags, current_index, selection,
                  total_seconds, remaining_seconds, timer_active,
                  break_taken, test_mode, allow_breaks, was_running,
                  break_remaining, break_timer_active, old, nrestarts >>

\* ----------------------------------------------------------------- timer
\* _on_tick without self.timer.stop()
TickNoStop ==
  /\ Alive
  /\ timer_active
  /\ IF remaining_seconds - 1 <= 0
       THEN /\ timer_active' = TRUE
            /\ remaining_seconds' = 0
            /\ stack' = Push("timeup")
       ELSE /\ timer_active' = TRUE
            /\ remaining_seconds' = remaining_seconds - 1
            /\ stack' = stack
  /\ last' = "tick"
  /\ UNCHANGED << gw, studies >>
  /\ UNCHANGED << options, win, quiz, user_answers, flags, current_index,
                  selection, total_seconds, break_taken, test_mode,
                  allow_breaks, was_running, break_remaining,
                  break_timer_active, old, nrestarts >>

\* _on_tick testing "self.remaining_seconds < 0"
TickLate ==
  /\ Alive
  /\ timer_active
  /\ IF remaining_seconds - 1 < 0
       THEN /\ timer_active' = FALSE
            /\ remaining_seconds' = 0
            /\ stack' = Push("timeup")
       ELSE /\ timer_active' = TRUE
            /\ remaining_seconds' = remaining_seconds - 1
            /\ stack' = stack
  /\ last' = "tick"
  /\ UNCHANGED << gw, studies >>
  /\ UNCHANGED << options, win, quiz, user_answers, flags, current_index,
                  selection, total_seconds, break_taken, test_mode,
                  allow_breaks, was_running, break_remaining,
                  break_timer_active, old, nrestarts >>

\* QuizMainWindow._on_tick: the timeout of self.timer.  It is delivered by
\* whichever event loop is running, the nested loop of a modal dialog
\* included, and also after the window was closed by _finish.
Tick ==
  /\ Alive
  /\ timer_active
  /\ IF remaining_seconds - 1 <= 0
       THEN /\ timer_active' = FALSE
            /\ remaining_seconds' = 0
            /\ stack' = Push("timeup")
       ELSE /\ timer_active' = TRUE
            /\ remaining_seconds' = remaining_seconds - 1
            /\ stack' = stack
  /\ last' = "tick"
  /\ UNCHANGED << gw, studies >>
  /\ UNCHANGED << options, win, quiz, user_answers, flags, current_index,
                  selection, total_seconds, break_taken, test_mode,
                  allow_breaks, was_running, break_remaining,
                  break_timer_active, old, nrestarts >>

\* the "Time is up!" notice of _on_tick is dismissed and _on_tick goes on
\* with _submit_current
TimeUpOk ==
  /\ Top = "timeup"
  /\ SubmitCurrent
  /\ stack' = Pop
  /\ last' = "timeup_ok"
  /\ UNCHANGED << gw, studies >>
  /\ UNCHANGED << options, win, quiz, flags, current_index, selection,
                  total_seconds, remaining_seconds, timer_active,
                  break_taken, test_mode, allow_breaks, was_running,
                  break_remaining, break_timer_active, old, nrestarts >>

\* ----------------------------------------------------------------- break
\* _take_break without the test of total_seconds in its guard
TakeBreakUntimed ==
  /\ Idle
  /\ stack' = IF allow_breaks /\ ~break_taken THEN Push("break_confirm")
              ELSE stack
  /\ last' = "take_break"
  /\ UNCHANGED << gw, studies >>
  /\ UNCHANGED << options, win, quiz, user_answers, flags, current_index,
                  selection, total_seconds, remaining_seconds, timer_active,
                  break_taken, test_mode, allow_breaks, was_running,
                  break_remaining, break_timer_active, old, nrestarts >>

\* QuizMainWindow._take_break up to its confirmation question
TakeBreak ==
  /\ Idle
  /\ stack' = IF BreakAllowed THEN Push("break_confirm") ELSE stack
  /\ last' = "take_break"
  /\ UNCHANGED << gw, studies >>
  /\ UNCHANGED << options, win, quiz, user_answers, flags, current_index,
                  selection, total_seconds, remaining_seconds, timer_active,
                  break_taken, test_mode, allow_breaks, was_running,
                  break_remaining, break_timer_active, old, nrestarts >>

\* the question is answered No: _take_break returns
BreakNo ==
  /\ Top = "break_confirm"
  /\ stack' = Pop
  /\ last' = "break_no"
  /\ UNCHANGED << gw, studies >>
  /\ UNCHANGED << options, win, quiz, user_answers, flags, current_index,
                  selection, total_seconds, remaining_seconds, timer_active,
                  break_taken, test_mode, allow_breaks, was_running,
                  break_remaining, break_timer_active, old, nrestarts >>

\* _take_break without "if was_running: self.timer.stop()"
BreakYesNoPause ==
  /\ Top = "break_confirm"
  /\ was_running' = timer_active
  /\ timer_active' = timer_active
  /\ break_remaining' = BreakSeconds
  /\ break_timer_active' = TRUE
  /\ stack' = Append(Pop, "break")
  /\ last' = "break_yes"
  /\ UNCHANGED << gw, studies >>
  /\ UNCHANGED << options, win, quiz, user_answers, flags, current_index,
                  selection, total_seconds, remaining_seconds, break_taken,
                  test_mode, allow_breaks, old, nrestarts >>

\* the question is answered Yes: the main timer is stopped, the BreakDialog
\* is built (its constructor starts its own timer) and executed
BreakYes ==
  /\ Top = "break_confirm"
  /\ was_running' = timer_active
  /\ timer_active' = FALSE
  /\ break_remaining' = BreakSeconds
  /\ break_timer_active' = TRUE
  /\ stack' = Append(Pop, "break")
  /\ last' = "break_yes"
  /\ UNCHANGED << gw, studies >>
  /\ UNCHANGED << options, win, quiz, user_answers, flags, current_index,
                  selection, total_seconds, remaining_seconds, break_taken,
                  test_mode, allow_breaks, old, nrestarts >>

\* _take_break after dialog.exec() has returned
AfterBreak ==
  /\ break_taken' = TRUE
  /\ timer_active' = (was_running /\ remaining_seconds > 0)
  /\ stack' = Pop

\* BreakDialog._tick without self.accept()
BreakTickNoAccept ==
  /\ Alive
  /\ break_timer_active
  /\ IF break_remaining - 1 <= 0
       THEN /\ break_timer_active' = FALSE
            /\ break_remaining' = 0
       ELSE /\ break_timer_active' = TRUE
            /\ break_remaining' = break_remaining - 1
  /\ last' = "break_tick"
  /\ UNCHANGED << gw, studies >>
  /\ UNCHANGED << break_taken, timer_active, stack >>
  /\ UNCHANGED << options, win, quiz, user_answers, flags, current_index,
                  selection, total_seconds, remaining_seconds, test_mode,
                  allow_breaks, was_running, old, nrestarts >>

\* BreakDialog._tick.  accept() ends dialog.exec() when the dialog is the
\* one being executed; on a dialog that was closed before it does nothing.
BreakTick ==
  /\ Alive
  /\ break_timer_active
  /\ IF break_remaining - 1 <= 0
       THEN /\ break_timer_active' = FALSE
            /\ break_remaining' = 0
            /\ IF Top = "break" THEN AfterBreak
               ELSE UNCHANGED << break_taken, timer_active, stack >>
       ELSE /\ break_timer_active' = TRUE
            /\ break_remaining' = break_remaining - 1
            /\ UNCHANGED << break_taken, timer_active, stack >>
  /\ last' = "break_tick"
  /\ UNCHANGED << gw, studies >>
  /\ UNCHANGED << options, win, quiz, user_answers, flags, current_index,
                  selection, total_seconds, remaining_seconds, test_mode,
                  allow_breaks, was_running, old, nrestarts >>

\* "End Break Now" (clicked.connect(self.accept)): the dialog closes, its
\* timer is left as it is
EndBreakNow ==
  /\ Top = "break"
  /\ AfterBreak
  /\ last' = "end_break"
  /\ UNCHANGED << gw, studies >>
  /\ UNCHANGED << options, win, quiz, user_answers, flags, current_index,
                  selection, total_seconds, remaining_seconds, test_mode,
                  allow_breaks, was_running, break_remaining,
                  break_timer_active, old, nrestarts >>

\* ---------------------------------------------------------------- finish
\* _finish as a button that works only while time is left
FinishInTime ==
  /\ Idle
  /\ total_seconds = 0 \/ remaining_seconds > 0
  /\ LET ua == SaveCurrentSelection(quiz, user_answers, current_index, selection)
     IN /\ user_answers' = ua
        /\ IF Unanswered(ua)
             THEN /\ stack' = Push("finish_confirm")
                  /\ win' = win
             ELSE /\ stack' = Push("review")
                  /\ win' = "closed"
  /\ last' = "finish"
  /\ UNCHANGED << gw, studies >>
  /\ UNCHANGED << options, quiz, flags, current_index, selection,
                  total_seconds, remaining_seconds, timer_active,
                  break_taken, test_mode, allow_breaks, was_running,
                  break_remaining, break_timer_active, old, nrestarts >>

\* QuizMainWindow._finish up to its confirmation question, or, with nothing
\* unanswered, up to the review dialog
Finish ==
  /\ Idle
  /\ LET ua == SaveCurrentSelection(quiz, user_answers, current_index, selection)
     IN /\ user_answers' = ua
        /\ IF Unanswered(ua)
             THEN /\ stack' = Push("finish_confirm")
                  /\ win' = win
             ELSE /\ stack' = Push("review")
                  /\ win' = "closed"
  /\ last' = "finish"
  /\ UNCHANGED << gw, studies >>
  /\ UNCHANGED << options, quiz, flags, current_index, selection,
                  total_seconds, remaining_seconds, timer_active,
                  break_taken, test_mode, allow_breaks, was_running,
                  break_remaining, break_timer_active, old, nrestarts >>

\* the question is answered Yes: self.close(), then the review dialog
FinishYes ==
  /\ Top = "finish_confirm"
  /\ stack' = Append(Pop, "review")
  /\ win' = "closed"
  /\ last' = "finish_yes"
  /\ UNCHANGED << gw, studies >>
  /\ UNCHANGED << options, quiz, user_answers, flags, current_index,
                  selection, total_seconds, remaining_seconds, timer_active,
                  break_taken, test_mode, allow_breaks, was_running,
                  break_remaining, break_timer_active, old, nrestarts >>

\* the question is answered No: _finish returns
FinishNo ==
  /\ Top = "finish_confirm"
  /\ stack' = Pop
  /\ last' = "finish_no"
  /\ UNCHANGED << gw, studies >>
  /\ UNCHANGED << options, win, quiz, user_answers, flags, current_index,
                  selection, total_seconds, remaining_seconds, timer_active,
                  break_taken, test_mode, allow_breaks, was_running,
                  break_remaining, break_timer_active, old, nrestarts >>

\* ---------------------------------------------------------------- review
\* ReviewPopup closed with Close: no window is left and the process ends
ReviewClose ==
  /\ Top = "review"
  /\ stack' = Pop
  /\ last' = "review_close"
  /\ UNCHANGED << gw, studies >>
  /\ UNCHANGED << options, win, quiz, user_answers, flags, current_index,
                  selection, total_seconds, remaining_seconds, timer_active,
                  break_taken, test_mode, allow_breaks, was_running,
                  break_remaining, break_timer_active, old, nrestarts >>

\* ReviewPopup Restart button: _restart opens the settings dialog over
\* self.raw_quiz
Restart ==
  /\ Top = "review"
  /\ nrestarts < MaxRestarts
  /\ stack' = Push("settings")
  /\ last' = "restart"
  /\ UNCHANGED << gw, studies >>
  /\ UNCHANGED << options, win, quiz, user_answers, flags, current_index,
                  selection, total_seconds, remaining_seconds, timer_active,
                  break_taken, test_mode, allow_breaks, was_running,
                  break_remaining, break_timer_active, old, nrestarts >>

\* ------------------------------------------------------------------ Next
\* one session from the settings dialog to the end of the review, with
\* every setting of the dialog
Next ==
  \/ SettingsOk(0..MaxCount, {0, MaxTimer}, BOOLEAN)
  \/ SettingsCancel
  \/ \E o \in {"a", "b", "c", "d"} : Select(o)
  \/ Prev
  \/ Next_
  \/ ToggleFlag
  \/ OpenFlagList
  \/ FlagInfoOk
  \/ \E i \in flags : FlagGo(i)
  \/ FlagClose
  \/ Submit
  \/ Check
  \/ Tick
  \/ TimeUpOk
  \/ TakeBreak
  \/ BreakNo
  \/ BreakYes
  \/ BreakTick
  \/ EndBreakNow
  \/ Finish
  \/ FinishYes
  \/ FinishNo
  \/ ReviewClose

Spec == Init /\ [][Next]_vars

\* the session with the break countdown served: the QTimer of an open
\* BreakDialog fires every second as long as the event loop runs
SpecBreak == Spec /\ WF_vars(BreakTick)

\* construction and restart: untimed study-mode sessions of every size up to
\* MaxDraw in which the user answers and flags the first question, finishes
\* and restarts
NextRestart ==
  \/ SettingsOk(0..MaxDraw, {0}, {FALSE})
  \/ SettingsCancel
  \/ \E o \in {"a", "b", "c", "d"} : Select(o)
  \/ ToggleFlag
  \/ Finish
  \/ FinishYes
  \/ ReviewClose
  \/ Restart

SpecRestart == Init /\ [][NextRestart]_vars


\* ================================================================ claims
\* every variable but the history variable
state == << options, win, stack, quiz, user_answers, flags, current_index,
            selection, total_seconds, remaining_seconds, timer_active,
            break_taken, test_mode, allow_breaks, was_running,
            break_remaining, break_timer_active, old, nrestarts >>

\* the dialogs of the stack
Frames == Range(stack)

\* the stored answer of a position counts as an answer
Answered(a) == a.kind # "none" /\ a.val # {}

\* the option lists of the items of a session, position by position
ItemOptions(q, opts) == [i \in DOMAIN q |-> opts[q[i]]]

\* C1: constructing a session never mutates the shared bank (every bank
\* item keeps the order of its options list) and no two session positions
\* hold the same options list.
C1_BankNeverMutated ==
  /\ \A b \in BankIds : options[b] = Bank[b].options
  /\ \A i, j \in DOMAIN quiz : i # j => quiz[i] # quiz[j]

\* C2: Finished is terminal: once the window has been closed by _finish,
\* no later step changes user_answers, flags, current_index or
\* remaining_seconds of that session.
C2_FinishedTerminal ==
  [][(win = "closed" /\ win' = "closed" /\ nrestarts' = nrestarts)
       => UNCHANGED session]_vars

\* C3: the main countdown and the break countdown are never both active.
C3_TimersExclusive == ~(timer_active /\ break_timer_active)

\* C4: at most one break per session: the end of a break sets break_taken,
\* break_taken stays true, no break dialog or break question is open once
\* it is true, and a later _take_break changes nothing.
C4_OneBreak ==
  [][/\ (("break" \in Frames /\ "break" \notin Frames') => break_taken')
     /\ (break_taken => break_taken')
     /\ (break_taken => Frames' \cap {"break", "break_confirm"} = {})
     /\ ((break_taken /\ last' = "take_break") => UNCHANGED state)]_vars

\* a later _take_break has run after the one break, with time left
C4_Witness ==
  /\ break_taken
  /\ remaining_seconds > 0
  /\ timer_active
  /\ last = "take_break"

\* C5: _take_break goes on (to its question and then to the break) only
\* when allow_breaks, total_seconds > 0, no break was taken and no break is
\* active; in every other state it changes nothing.
C5_StartBreakGuard ==
  [][LET pre == /\ allow_breaks
                /\ total_seconds > 0
                /\ ~break_taken
                /\ "break" \notin Frames
     IN /\ ((last' = "take_break" /\ ~pre) => UNCHANGED state)
        /\ ((Frames' \ Frames) \cap {"break", "break_confirm"} # {} => pre)]_vars

\* _take_break has run as a no-op in a session without a timer although
\* breaks are allowed
C5_Witness ==
  /\ last = "take_break"
  /\ allow_breaks
  /\ total_seconds = 0
  /\ ~break_taken
  /\ stack = <<>>

\* C6: a break is a pure pause: entering the break stops the main timer,
\* while the break dialog is open remaining_seconds, user_answers, flags and
\* current_index do not change and the main timer stays stopped, and the end
\* of the break restarts the main timer, if it ran before and time is left,
\* at the unchanged remaining_seconds.
C6_BreakIsPause ==
  [][/\ (("break" \in Frames \/ "break" \in Frames') => UNCHANGED session)
     /\ ("break" \in Frames' => ~timer_active')
     /\ (("break" \notin Frames /\ "break" \in Frames')
           => was_running' = timer_active)
     /\ (("break" \in Frames /\ "break" \notin Frames')
           => timer_active' = (was_running /\ remaining_seconds > 0))]_vars

\* a break has just ended and the main countdown runs again
C6_Witness ==
  /\ last \in {"end_break", "break_tick"}
  /\ break_taken
  /\ stack = <<>>
  /\ timer_active
  /\ remaining_seconds > 0
  /\ remaining_seconds < total_seconds

\* C7: a tick takes exactly 1 from remaining_seconds; the tick that reaches
\* 0 stops the timer for good and opens the one time-up notice, after which
\* _submit_current stores the selection at current_index.
C7_Tick ==
  [][/\ (last' = "tick" => remaining_seconds' = remaining_seconds - 1)
     /\ ((last' = "tick" /\ remaining_seconds' = 0)
           => ~timer_active' /\ stack' = Append(stack, "timeup"))
     /\ ("timeup" \in Frames' /\ "timeup" \notin Frames
           => last' = "tick" /\ remaining_seconds' = 0)
     /\ ("timeup" \in Frames => last' # "tick")
     /\ ~(timer_active' /\ remaining_seconds' = 0)
     /\ (remaining_seconds = 0 => remaining_seconds' = 0 \/ win = "none")
     /\ (last' = "timeup_ok"
           => /\ user_answers' =
                   [user_answers EXCEPT ![current_index + 1] = selection]
              /\ stack' = SubSeq(stack, 1, Len(stack) - 1)
              /\ stack[Len(stack)] = "timeup")]_vars

\* the time-up notice was dismissed and the selection of the current
\* question is stored
C7_Witness ==
  /\ last = "timeup_ok"
  /\ total_seconds > 0
  /\ remaining_seconds = 0
  /\ ~timer_active
  /\ Answered(user_answers[current_index + 1])

\* C8: _finish saves the selection; with every entry answered it closes the
\* window and opens the review without asking, otherwise it asks, closes
\* only on Yes, and on No leaves everything as it was after the save.
C8_Finish ==
  [][/\ (last' = "finish"
           => LET ua == [user_answers EXCEPT ![current_index + 1] = selection]
              IN /\ user_answers' = ua
                 /\ UNCHANGED << flags, current_index, remaining_seconds,
                                 timer_active, break_taken, selection >>
                 /\ IF \A i \in DOMAIN ua : Answered(ua[i])
                      THEN win' = "closed" /\ stack' = << "review" >>
                      ELSE win' = "shown" /\ stack' = << "finish_confirm" >>)
     /\ (last' = "finish_no"
           => /\ "finish_confirm" \in Frames
              /\ win' = "shown"
              /\ stack' = <<>>
              /\ UNCHANGED << options, quiz, user_answers, flags,
                              current_index, selection, total_seconds,
                              remaining_seconds, timer_active, break_taken >>)
     /\ ((win = "shown" /\ win' = "closed")
           => \/ last' = "finish_yes" /\ "finish_confirm" \in Frames
              \/ last' = "finish" /\ \A i \in DOMAIN user_answers' :
                                        Answered(user_answers'[i]))]_vars

\* finish was declined: the session goes on with the selection saved
C8_Witness ==
  /\ last = "finish_no"
  /\ win = "shown"
  /\ stack = <<>>
  /\ Answered(user_answers[current_index + 1])
  /\ \E i \in DOMAIN user_answers : ~Answered(user_answers[i])

\* C9: a restart leaves the finished session as it was (its items with the
\* order of their options, its user_answers and its flags) and the new
\* session starts with every answer None, no flag, current_index 0 and
\* break_taken false.
C9_RestartKeepsOld ==
  [][nrestarts' = nrestarts + 1
       => /\ old'.quiz = quiz
          /\ ItemOptions(old'.quiz, options') = ItemOptions(quiz, options)
          /\ old'.user_answers = user_answers
          /\ old'.flags = flags
          /\ \A i \in DOMAIN user_answers' : user_answers'[i] = None
          /\ flags' = {}
          /\ current_index' = 0
          /\ ~break_taken']_vars

\* C10: operations run to completion: no tick is handled while _finish or
\* _take_break waits for its answer or while the time-up notice is shown.
C10_RunToCompletion ==
  [][last' = "tick"
       => Frames \cap {"finish_confirm", "break_confirm", "timeup"} = {}]_vars


\* C16: check in test mode changes nothing (the pending selection is not
\* saved); outside test mode it changes user_answers[current_index] and
\* nothing else: flags, current_index, remaining_seconds, the break state
\* and every other user_answers entry stay as they are.
C16_CheckFrame ==
  [][last' = "check"
       => /\ test_mode => UNCHANGED state
          /\ ~test_mode
               => /\ user_answers' =
                       [user_answers EXCEPT ![current_index + 1] = selection]
                  /\ UNCHANGED << options, win, stack, quiz, flags,
                                  current_index, selection, total_seconds,
                                  remaining_seconds, timer_active,
                                  break_taken, test_mode, allow_breaks,
                                  was_running, break_remaining,
                                  break_timer_active, old, nrestarts >>]_vars

\* check ran in test mode with a pending selection, which is still unsaved
C16_Witness ==
  /\ last = "check"
  /\ test_mode
  /\ Answered(selection)
  /\ user_answers[current_index + 1] = None

\* C17: navigate first stores the selection in user_answers[current_index],
\* then moves current_index by one in its direction, or leaves it at the
\* boundary; in a session with n > 0 items 0 <= current_index <= n - 1
\* always.
C17_Navigate ==
  [][/\ last' = "next"
          => /\ user_answers' =
                  [user_answers EXCEPT ![current_index + 1] = selection]
             /\ current_index' = IF current_index < Len(quiz) - 1
                                   THEN current_index + 1 ELSE current_index
     /\ last' = "prev"
          => /\ user_answers' =
                  [user_answers EXCEPT ![current_index + 1] = selection]
             /\ current_index' = IF current_index > 0
                                   THEN current_index - 1 ELSE current_index
     /\ Len(quiz') > 0 => current_index' \in 0..(Len(quiz') - 1)]_vars

\* Next on the last question of two: the selection was stored there and the
\* index stayed
C17_Witness ==
  /\ last = "next"
  /\ Len(quiz) = 2
  /\ current_index = 1
  /\ Answered(user_answers[2])
  /\ Answered(user_answers[1])

\* C18: only toggleFlag changes flags; it flips the membership of
\* current_index and of no other index and does not move current_index (so
\* a second toggle restores flags); flags is a subset of the item indices;
\* navigation, submit, check, ticks, break steps and the jump from the
\* flagged list leave flags as they are.
C18_OnlyToggleChangesFlags ==
  [][/\ flags' # flags => last' = "toggle_flag"
     /\ last' = "toggle_flag"
          => /\ flags' = (flags \ {current_index})
                           \cup ({current_index} \ flags)
             /\ current_index' = current_index
     /\ last' \in {"prev", "next", "submit", "check", "tick", "timeup_ok",
                   "take_break", "break_no", "break_yes", "break_tick",
                   "end_break", "flag_go"}
          => flags' = flags
     /\ flags' \subseteq 0..(Len(quiz') - 1)]_vars

\* a toggle that removed the flag of the current question and kept the flag
\* of the other one
C18_Witness ==
  /\ last = "toggle_flag"
  /\ current_index \notin flags
  /\ flags # {}

\* C19: toggleFlag changes neither user_answers nor the pending selection
\* of the current item.
C19_ToggleKeepsAnswer ==
  [][last' = "toggle_flag"
       => user_answers' = user_answers /\ selection' = selection]_vars

\* C20: neither correctness nor time blocks the session: whenever the main
\* window takes input, also with an incorrect stored answer and with
\* remaining_seconds = 0, Previous, Next, Submit and Finish are enabled, the
\* time-up notice can always be dismissed, and no step other than finish
\* closes the window (the countdown reaching 0 does not).
C20_NeverBlocked ==
  /\ [](Idle => /\ ENABLED Prev
                /\ ENABLED Next_
                /\ ENABLED Submit
                /\ ENABLED Finish)
  /\ [](Top = "timeup" => ENABLED TimeUpOk)
  /\ [][(win = "shown" /\ win' = "closed")
          => last' \in {"finish", "finish_yes"}]_vars

\* the time is used up, an incorrect answer is stored, and the user has
\* just navigated
C20_Witness ==
  /\ Idle
  /\ total_seconds > 0
  /\ remaining_seconds = 0
  /\ last = "prev"
  /\ \E i \in DOMAIN quiz :
        /\ Answered(user_answers[i])
        /\ user_answers[i].val # Bank[quiz[i]].answer

\* C34: in a session without a timer the main countdown never runs,
\* remaining_seconds is 0 throughout, no tick and no time-up notice occur,
\* and _take_break changes nothing even when breaks are allowed: neither
\* its question nor a break dialog is ever opened.
C34_ZeroTimer ==
  [][(win # "none" /\ total_seconds = 0)
       => /\ ~timer_active /\ ~timer_active'
          /\ remaining_seconds = 0 /\ remaining_seconds' = 0
          /\ last' \notin {"tick", "timeup_ok", "break_tick"}
          /\ Frames' \cap {"timeup", "break_confirm", "break"} = {}
          /\ ~break_timer_active' /\ ~break_taken'
          /\ (last' = "take_break" => UNCHANGED state)]_vars

\* an untimed session with breaks allowed in which an answer is stored and
\* the break button's handler has just returned
C34_Witness ==
  /\ last = "take_break"
  /\ win = "shown"
  /\ total_seconds = 0
  /\ allow_breaks
  /\ remaining_seconds = 0
  /\ ~timer_active
  /\ \E i \in DOMAIN user_answers : Answered(user_answers[i])

\* C35: user_answers has one entry per session position, all None after
\* construction; the entry of a multi item is None or a set of that item's
\* options, the entry of a single item None or one of its options; a step
\* of a session changes at most the entry at current_index.
C35_AnswersParallel ==
  [][/\ win' # "none"
          => /\ Len(user_answers') = Len(quiz')
             /\ \A i \in DOMAIN user_answers' :
                   LET a == user_answers'[i]
                       item == Bank[quiz'[i]]
                   IN /\ a.val \subseteq Range(options'[quiz'[i]])
                      /\ IF item.multi THEN a.kind \in {"none", "set"}
                         ELSE \/ a.kind = "none"
                              \/ a.kind = "str" /\ Cardinality(a.val) = 1
                      /\ a.kind = "none" => a.val = {}
     /\ last' = "settings_ok"
          => \A i \in DOMAIN user_answers' : user_answers'[i] = None
     /\ (win # "none" /\ last' # "settings_ok")
          => \A i \in DOMAIN user_answers :
                i # current_index + 1 => user_answers'[i] = user_answers[i]]_vars

\* a session of two positions: the single item holds one option, the multi
\* item, saved on leaving for the other question, a set of two
C35_Witness ==
  /\ Len(quiz) = 2
  /\ \E i, j \in DOMAIN quiz :
        /\ i # j
        /\ user_answers[i].kind = "str"
        /\ user_answers[j].kind = "set"
        /\ Cardinality(user_answers[j].val) = 2
        /\ current_index + 1 = i
  /\ last \in {"next", "prev"}

\* C36: remaining_seconds stays between 0 and total_seconds and never goes
\* up within a session, and the main countdown runs only while
\* remaining_seconds > 0: once at 0 it is never started again.
C36_Countdown ==
  [][/\ win' # "none"
          => /\ 0 <= remaining_seconds'
             /\ remaining_seconds' <= total_seconds'
             /\ timer_active' => remaining_seconds' > 0
     /\ win # "none"
          => /\ remaining_seconds' <= remaining_seconds
             /\ (remaining_seconds = 0 => ~timer_active')]_vars

\* the countdown ran out during the session, a break was taken on the way,
\* and the timer is off
C36_Witness ==
  /\ win = "shown"
  /\ total_seconds > 0
  /\ remaining_seconds = 0
  /\ break_taken
  /\ ~timer_active
  /\ stack = <<>>

\* C37: the break countdown starts at its full length when the break dialog
\* opens, a break tick takes 1 from it and it never goes below 0; the tick
\* that reaches 0 closes the dialog; with the break ticks served, every
\* break leads back to the main window with break_taken set.
C37_BreakEnds ==
  /\ [][/\ ("break" \notin Frames /\ "break" \in Frames')
             => break_remaining' = BreakSeconds
        /\ last' = "break_tick"
             => /\ break_remaining > 0
                /\ break_remaining' = break_remaining - 1
        /\ break_remaining' >= 0
        /\ ("break" \in Frames /\ last' = "break_tick"
              /\ break_remaining' = 0)
             => "break" \notin Frames'
        /\ ("break" \in Frames /\ "break" \notin Frames')
             => break_taken' /\ win' = "shown" /\ stack' = <<>>]_vars
  /\ ("break" \in Frames) ~> (Idle /\ break_taken)

\* the break dialog closed by its own countdown
C37_Witness ==
  /\ last = "break_tick"
  /\ break_remaining = 0
  /\ ~break_timer_active
  /\ break_taken
  /\ Idle

\* C38: the jump of the flag list sets current_index to the chosen member of
\* flags and closes the list; user_answers (the selection on screen is not
\* saved), flags, the countdown and the break state stay as they are; the
\* list is open only while flags is not empty.
C38_FlagJump ==
  [][/\ last' = "flag_go"
          => /\ Top = "flag_list"
             /\ current_index' \in flags
             /\ stack' = Pop
             /\ UNCHANGED << user_answers, flags, total_seconds,
                             remaining_seconds, timer_active, break_taken,
                             was_running, break_remaining,
                             break_timer_active, quiz, options, win >>
     /\ "flag_list" \in Frames' => flags' # {}
     /\ (flags = {} /\ last' = "open_flag_list")
          => stack' = Append(stack, "flag_info")]_vars

\* a jump from the second question back to the flagged first one, whose
\* entry is still None
C38_Witness ==
  /\ last = "flag_go"
  /\ Len(quiz) = 2
  /\ flags = {0}
  /\ current_index = 0
  /\ user_answers[1] = None
  /\ Answered(user_answers[2])
  /\ selection = Rendered(quiz, user_answers, 0)


\* =============================================================== grading
\* Grading, button feedback and the review score, explored on a window of
\* one question (`gw`) over every item extract_images_and_prepare_quiz can
\* produce for two options.  Next to the session runs its twin: the same
\* window over an item that differs in the answer set only, receiving the
\* same clicks.  The stored answers and the flash timers of the twin are
\* those of the session (neither depends on the answer set); the texts of
\* its two buttons are kept apart.

\* the items of the notes parser: "multi" is set for several answer tokens
\* or several resolved options, so a single-choice item has at most one
\* answer and a multi item any subset, the empty one included (tokens that
\* resolve to no option)
GradeItems ==
  { it \in { [options |-> <<"a", "b">>, answer |-> A, multi |-> m] :
             A \in SUBSET {"a", "b"}, m \in BOOLEAN } :
      it.multi \/ Cardinality(it.answer) <= 1 }

\* `gw.score` while no review is open
NoScore == [present |-> FALSE]

\* is_correct of _submit_current with partial credit for a stored set
SubmitIsCorrectPartial(correct, chosen) ==
  IF chosen.kind = "set" THEN chosen.val # {} /\ chosen.val \subseteq correct
  ELSE IF chosen.kind = "str" THEN \E s \in chosen.val : s \in correct
  ELSE FALSE

\* is_correct of _submit_current: the rule follows the type of the stored
\* value
SubmitIsCorrect(correct, chosen) ==
  IF chosen.kind = "set" THEN chosen.val = correct
  ELSE IF chosen.kind = "str" THEN \E s \in chosen.val : s \in correct
  ELSE FALSE

\* is_correct of _check_current_answer
CheckIsCorrect(correct, chosen) ==
  IF chosen.kind = "set" THEN chosen.val = correct
  ELSE IF chosen.kind = "str" THEN \E s \in chosen.val : s \in correct
  ELSE FALSE

\* is_correct_now of _open_review_dialog
ReviewIsCorrectNow(correct, chosen_raw) ==
  IF chosen_raw.kind = "set" THEN chosen_raw.val = correct
  ELSE IF chosen_raw.kind = "none" THEN FALSE
  ELSE \E s \in chosen_raw.val : s \in correct

\* int(x) without round: the percentage cut off
PercentFloor(correct_count, total) ==
  IF total = 0 THEN 0 ELSE (100 * correct_count) \div total

\* int(round(x)) of Python: to the nearest integer, a tie to the even one
Percent(correct_count, total) ==
  IF total = 0 THEN 0
  ELSE LET n == 100 * correct_count
           q == n \div total
           r == n % total
       IN IF 2 * r < total THEN q
          ELSE IF 2 * r > total THEN q + 1
          ELSE IF q % 2 = 0 THEN q ELSE q + 1

\* score_tuple of _open_review_dialog
ReviewScore(q, ua) ==
  LET correct_count ==
        Cardinality({i \in DOMAIN q : ReviewIsCorrectNow(q[i].answer, ua[i])})
  IN [present |-> TRUE, correct_count |-> correct_count, total |-> Len(q),
      percent |-> Percent(correct_count, Len(q))]

\* QuizMainWindow._flash_button: the text the button shows afterwards (the
\* style changes with it); `ok` is not read.  "Saved" stands for the text
\* with the check mark in front.
FlashButton(text, ok, flash_code) ==
  IF flash_code = "submit" THEN "Saved"
  ELSE IF flash_code = "check_not_quite" THEN "Not Quite!"
  ELSE IF flash_code = "cc" THEN "Correct!"
  ELSE text

\* the user can act on the window
GradeIdle == gw.win = "shown" /\ gw.stack = <<>>

\* after construction: nothing stored, both buttons with their base text
InitGrade ==
  /\ options = [b \in BankIds |-> Bank[b].options]
  /\ win = "none"
  /\ stack = <<>>
  /\ quiz = <<>>
  /\ user_answers = <<>>
  /\ flags = {}
  /\ current_index = 0
  /\ selection = None
  /\ total_seconds = 0
  /\ remaining_seconds = 0
  /\ timer_active = FALSE
  /\ break_taken = FALSE
  /\ test_mode = FALSE
  /\ allow_breaks = TRUE
  /\ was_running = FALSE
  /\ break_remaining = 0
  /\ break_timer_active = FALSE
  /\ old = NoOld
  /\ nrestarts = 0
  /\ app = Unused
  /\ deck = Unused
  /\ resolve = Unused
  /\ review = Unused
  /\ norm = Unused
  /\ notes = Unused
  /\ last = "init"
  /\ \E it \in GradeItems, tw \in GradeItems, tm \in BOOLEAN :
        /\ tw.multi = it.multi
        /\ gw = [quiz |-> << it >>, twin_answer |-> tw.answer,
                 test_mode |-> tm, win |-> "shown", stack |-> <<>>,
                 selection |-> IF it.multi THEN SetOf({}) ELSE None,
                 user_answers |-> << None >>,
                 submit_text |-> "Submit", submit_flash |-> FALSE,
                 check_text |-> "Check Answer", check_flash |-> FALSE,
                 twin_submit_text |-> "Submit",
                 twin_check_text |-> "Check Answer",
                 submit_is_correct |-> FALSE, check_is_correct |-> FALSE,
                 score |-> NoScore]

\* the user clicks an option: a checkbox toggles, a radio button becomes the
\* checked one
GradeSelect(o) ==
  /\ GradeIdle
  /\ o \in Range(gw.quiz[1].options)
  /\ gw' = [gw EXCEPT !.selection =
              IF gw.quiz[1].multi
                THEN SetOf(IF o \in @.val THEN @.val \ {o} ELSE @.val \cup {o})
                ELSE Str(o)]
  /\ last' = "select"
  /\ UNCHANGED << state, studies >>

\* QuizMainWindow._submit_current with its two _flash_button calls
GradeSubmit ==
  /\ GradeIdle
  /\ LET ua == [gw.user_answers EXCEPT ![1] = gw.selection]
         neutral == FlashButton(gw.submit_text, TRUE, "submit")
         twin_neutral == FlashButton(gw.twin_submit_text, TRUE, "submit")
         is_correct == SubmitIsCorrect(gw.quiz[1].answer, ua[1])
         twin_is_correct == SubmitIsCorrect(gw.twin_answer, ua[1])
     IN gw' = IF gw.test_mode
                THEN [gw EXCEPT !.user_answers = ua,
                                !.submit_text = neutral,
                                !.twin_submit_text = twin_neutral,
                                !.submit_flash = TRUE]
                ELSE [gw EXCEPT !.user_answers = ua,
                                !.submit_is_correct = is_correct,
                                !.submit_text =
                                   FlashButton(neutral, is_correct, "submit"),
                                !.twin_submit_text =
                                   FlashButton(twin_neutral, twin_is_correct,
                                               "submit"),
                                !.submit_flash = TRUE]
  /\ last' = "submit"
  /\ UNCHANGED << state, studies >>

\* the flash code _check_current_answer passes to _flash_button
CheckFlashCode(is_correct) ==
  IF is_correct THEN "check_current" ELSE "check_not_quite"

\* _check_current_answer without the test-mode return
GradeCheckAlways ==
  /\ GradeIdle
  /\ LET ua == [gw.user_answers EXCEPT ![1] = gw.selection]
         is_correct == CheckIsCorrect(gw.quiz[1].answer, ua[1])
         twin_is_correct == CheckIsCorrect(gw.twin_answer, ua[1])
     IN gw' = [gw EXCEPT !.user_answers = ua,
                         !.check_is_correct = is_correct,
                         !.check_text =
                            FlashButton(@, TRUE, CheckFlashCode(is_correct)),
                         !.twin_check_text =
                            FlashButton(@, TRUE,
                                        CheckFlashCode(twin_is_correct)),
                         !.check_flash = TRUE]
  /\ last' = "check"
  /\ UNCHANGED << state, studies >>

\* QuizMainWindow._check_current_answer
GradeCheck ==
  /\ GradeIdle
  /\ LET ua == [gw.user_answers EXCEPT ![1] = gw.selection]
         is_correct == CheckIsCorrect(gw.quiz[1].answer, ua[1])
         twin_is_correct == CheckIsCorrect(gw.twin_answer, ua[1])
     IN gw' = IF gw.test_mode THEN gw
              ELSE [gw EXCEPT !.user_answers = ua,
                              !.check_is_correct = is_correct,
                              !.check_text =
                                 FlashButton(@, TRUE,
                                             CheckFlashCode(is_correct)),
                              !.twin_check_text =
                                 FlashButton(@, TRUE,
                                             CheckFlashCode(twin_is_correct)),
                              !.check_flash = TRUE]
  /\ last' = "check"
  /\ UNCHANGED << state, studies >>

\* _flash_button._revert of the Submit button: its single-shot timer fires
SubmitRevert ==
  /\ gw.submit_flash
  /\ gw.win = "shown" \/ gw.stack # <<>>
  /\ gw' = [gw EXCEPT !.submit_text = "Submit", !.twin_submit_text = "Submit",
                      !.submit_flash = FALSE]
  /\ last' = "submit_revert"
  /\ UNCHANGED << state, studies >>

\* _flash_button._revert of the Check button
CheckRevert ==
  /\ gw.check_flash
  /\ gw.win = "shown" \/ gw.stack # <<>>
  /\ gw' = [gw EXCEPT !.check_text = "Check Answer",
                      !.twin_check_text = "Check Answer",
                      !.check_flash = FALSE]
  /\ last' = "check_revert"
  /\ UNCHANGED << state, studies >>

\* QuizMainWindow._finish, with _open_review_dialog where nothing is
\* unanswered
GradeFinish ==
  /\ GradeIdle
  /\ LET ua == [gw.user_answers EXCEPT ![1] = gw.selection]
     IN gw' = IF Unanswered(ua)
                THEN [gw EXCEPT !.user_answers = ua,
                                !.stack = << "finish_confirm" >>]
                ELSE [gw EXCEPT !.user_answers = ua,
                                !.win = "closed",
                                !.stack = << "review" >>,
                                !.score = ReviewScore(gw.quiz, ua)]
  /\ last' = "finish"
  /\ UNCHANGED << state, studies >>

\* the question is answered Yes: self.close(), then _open_review_dialog
GradeFinishYes ==
  /\ gw.stack = << "finish_confirm" >>
  /\ gw' = [gw EXCEPT !.win = "closed", !.stack = << "review" >>,
                      !.score = ReviewScore(gw.quiz, gw.user_answers)]
  /\ last' = "finish_yes"
  /\ UNCHANGED << state, studies >>

\* the question is answered No: _finish returns
GradeFinishNo ==
  /\ gw.stack = << "finish_confirm" >>
  /\ gw' = [gw EXCEPT !.stack = <<>>]
  /\ last' = "finish_no"
  /\ UNCHANGED << state, studies >>

\* ReviewPopup closed with Close
GradeReviewClose ==
  /\ gw.stack = << "review" >>
  /\ gw' = [gw EXCEPT !.stack = <<>>]
  /\ last' = "review_close"
  /\ UNCHANGED << state, studies >>

NextGrade ==
  \/ \E o \in {"a", "b"} : GradeSelect(o)
  \/ GradeSubmit
  \/ GradeCheck
  \/ SubmitRevert
  \/ CheckRevert
  \/ GradeFinish
  \/ GradeFinishYes
  \/ GradeFinishNo
  \/ GradeReviewClose

SpecGrade == InitGrade /\ [][NextGrade]_vars

\* C11: a None or empty stored answer is never counted correct by the
\* review, and an item whose answer set is empty is never counted correct,
\* whatever the user selected.
C11_EmptyNeverCorrect ==
  gw.score.present =>
    /\ ~Answered(gw.user_answers[1]) => gw.score.correct_count = 0
    /\ gw.quiz[1].answer = {} => gw.score.correct_count = 0

\* C12: for every item and every non-empty stored answer, submit, check and
\* the review compute the same correctness, and it is the reference rule:
\* set equality for a multi item, membership for a single item.
C12_OneRule ==
  LET item == gw.quiz[1]
      stored == gw.user_answers[1]
      reference == IF item.multi THEN stored.val = item.answer
                   ELSE stored.val \subseteq item.answer
  IN Answered(stored) =>
       /\ (last = "submit" /\ ~gw.test_mode)
            => gw.submit_is_correct = reference
       /\ (last = "check" /\ ~gw.test_mode)
            => gw.check_is_correct = reference
       /\ gw.score.present
            => gw.score.correct_count = (IF reference THEN 1 ELSE 0)

\* a full multi answer that check, submit and the review all graded correct
C12_Witness ==
  /\ gw.score.present
  /\ gw.quiz[1].multi
  /\ gw.quiz[1].answer = {"a", "b"}
  /\ gw.user_answers[1] = SetOf({"a", "b"})
  /\ gw.check_is_correct
  /\ gw.submit_is_correct
  /\ gw.score.correct_count = 1

\* C13: in test mode submit stores the selection and reveals nothing: the
\* session and its twin, which differ in the answer set only, show the same
\* button texts after every submit and check until the window is finished.
C13_TestModeRevealsNothing ==
  gw.test_mode =>
    /\ last = "submit" => gw.user_answers[1] = gw.selection
    /\ gw.win = "shown"
         => /\ gw.submit_text = gw.twin_submit_text
            /\ gw.check_text = gw.twin_check_text

\* a submit in test mode of an answer that is correct in the session and
\* incorrect in its twin
C13_Witness ==
  /\ gw.test_mode
  /\ last = "submit"
  /\ gw.submit_text = "Saved"
  /\ Answered(gw.user_answers[1])
  /\ SubmitIsCorrect(gw.quiz[1].answer, gw.user_answers[1])
  /\ ~SubmitIsCorrect(gw.twin_answer, gw.user_answers[1])

\* C14: outside test mode the acknowledgement of submit for a correct
\* stored answer differs from the one for an incorrect stored answer.
C14_SubmitReportsCorrectness ==
  (/\ ~gw.test_mode
   /\ last = "submit"
   /\ Answered(gw.user_answers[1])
   /\ SubmitIsCorrect(gw.quiz[1].answer, gw.user_answers[1])
        # SubmitIsCorrect(gw.twin_answer, gw.user_answers[1]))
    => gw.submit_text # gw.twin_submit_text

\* C15: outside test mode check shows 'Correct!' on the Check button for a
\* correct saved answer and 'Not Quite!' for an incorrect one.
C15_CheckShowsResult ==
  (~gw.test_mode /\ last = "check" /\ Answered(gw.user_answers[1]))
    => gw.check_text = (IF CheckIsCorrect(gw.quiz[1].answer, gw.user_answers[1])
                          THEN "Correct!" ELSE "Not Quite!")


\* ========================================================== construction
\* start_with_settings_dialog and run_quiz_app over a compiled bank of any
\* size, the empty one included.  `app.bank` is the number of dicts of
\* quiz_data, the dicts are 1..app.bank.

\* the variables of the session machine where a study runs without it
NoSession ==
  /\ options = [b \in BankIds |-> Bank[b].options]
  /\ win = "none"
  /\ stack = <<>>
  /\ quiz = <<>>
  /\ user_answers = <<>>
  /\ flags = {}
  /\ current_index = 0
  /\ selection = None
  /\ total_seconds = 0
  /\ remaining_seconds = 0
  /\ timer_active = FALSE
  /\ break_taken = FALSE
  /\ test_mode = FALSE
  /\ allow_breaks = TRUE
  /\ was_running = FALSE
  /\ break_remaining = 0
  /\ break_timer_active = FALSE
  /\ old = NoOld
  /\ nrestarts = 0
  /\ gw = NoWindow
  /\ last = "init"

\* the bank is compiled; neither entry point has been called yet
InitStart ==
  /\ NoSession
  /\ deck = Unused
  /\ resolve = Unused
  /\ review = Unused
  /\ norm = Unused
  /\ notes = Unused
  /\ \E n \in 0..MaxBank :
        app = [bank |-> n, frame |-> "entry", warned |-> FALSE,
               returned |-> FALSE, result |-> "none", window |-> "none",
               count |-> 0, allow_repeats |-> TRUE, quiz |-> <<>>]

\* start_with_settings_dialog opening the settings dialog for any bank
StartWithoutGuard ==
  /\ app.frame = "entry"
  /\ app' = [app EXCEPT !.frame = "settings"]
  /\ last' = "start"
  /\ UNCHANGED << state, gw, deck, resolve, review, norm, notes >>

\* start_with_settings_dialog up to its first modal dialog: the warning
\* "No questions were loaded." for an empty bank, else QuestionPopup
StartWithSettingsDialog ==
  /\ app.frame = "entry"
  /\ app' = IF app.bank = 0
              THEN [app EXCEPT !.frame = "warning", !.warned = TRUE]
              ELSE [app EXCEPT !.frame = "settings"]
  /\ last' = "start"
  /\ UNCHANGED << state, gw, deck, resolve, review, norm, notes >>

\* the warning is dismissed: start_with_settings_dialog returns None
StartWarningOk ==
  /\ app.frame = "warning"
  /\ app' = [app EXCEPT !.frame = "none", !.returned = TRUE,
                        !.result = "None"]
  /\ last' = "start_warning_ok"
  /\ UNCHANGED << state, gw, deck, resolve, review, norm, notes >>

\* QuestionPopup.on_ok with a count n >= 0, then QuizMainWindow.__init__ up
\* to self.quiz, and window.show()
StartOk(count, allow_repeats) ==
  /\ app.frame = "settings"
  /\ count >= 0
  /\ \E q \in ApplySettings(1..app.bank, count, allow_repeats) :
        app' = [app EXCEPT !.frame = "none", !.returned = TRUE,
                           !.result = "window", !.window = "shown",
                           !.count = count, !.allow_repeats = allow_repeats,
                           !.quiz = q]
  /\ last' = "start_ok"
  /\ UNCHANGED << state, gw, deck, resolve, review, norm, notes >>

\* QuestionPopup rejected: start_with_settings_dialog returns None
StartCancel ==
  /\ app.frame = "settings"
  /\ app' = [app EXCEPT !.frame = "none", !.returned = TRUE,
                        !.result = "None"]
  /\ last' = "start_cancel"
  /\ UNCHANGED << state, gw, deck, resolve, review, norm, notes >>

\* run_quiz_app: its settings tuple has five members, QuizMainWindow.__init__
\* unpacks six, so the constructor raises ValueError before self.quiz exists
RunQuizApp ==
  /\ app.frame = "entry"
  /\ app' = [app EXCEPT !.frame = "none", !.returned = TRUE,
                        !.result = "ValueError"]
  /\ last' = "run_quiz_app"
  /\ UNCHANGED << state, gw, deck, resolve, review, norm, notes >>

NextStart ==
  \/ StartWithSettingsDialog
  \/ StartWarningOk
  \/ \E count \in 0..(MaxBank + 1), allow_repeats \in BOOLEAN :
        StartOk(count, allow_repeats)
  \/ StartCancel
  \/ RunQuizApp

SpecStart == InitStart /\ [][NextStart]_vars

\* C21: a sample drawn without replacement (count 0, count up to the bank
\* size, or a larger count with repeats off) puts no bank item on two
\* positions; its size is the bank size for count 0 or a count above the
\* bank size and the count otherwise; for count 0 the session holds exactly
\* the items of the bank.
C21_WithoutReplacement ==
  (/\ app.window = "shown"
   /\ app.count <= app.bank \/ ~app.allow_repeats)
    => /\ \A i, j \in DOMAIN app.quiz : i # j => app.quiz[i] # app.quiz[j]
       /\ Len(app.quiz) = (IF app.count = 0 \/ app.count > app.bank
                             THEN app.bank ELSE app.count)
       /\ app.count = 0 => Range(app.quiz) = 1..app.bank

\* more questions asked for than the bank holds, repeats off: the whole bank
C21_Witness ==
  /\ app.window = "shown"
  /\ app.count > app.bank
  /\ ~app.allow_repeats
  /\ Len(app.quiz) = app.bank
  /\ app.bank >= 2

\* C22: with a count above the bank size and repeats allowed the session
\* has exactly count positions, each holding an item of the bank.
C22_WithRepeats ==
  (/\ app.window = "shown"
   /\ app.count > app.bank
   /\ app.allow_repeats)
    => /\ Len(app.quiz) = app.count
       /\ Range(app.quiz) \subseteq 1..app.bank

\* four positions drawn from a bank of three, one item drawn twice
C22_Witness ==
  /\ app.window = "shown"
  /\ app.bank = 3
  /\ app.count = 4
  /\ app.allow_repeats
  /\ Len(app.quiz) = 4
  /\ \E i, j \in DOMAIN app.quiz : i # j /\ app.quiz[i] = app.quiz[j]

\* C23: an empty bank prevents construction: the entry point reports the
\* failure to its caller (the warning and None, or the exception) and no
\* window over zero items is ever shown.
C23_EmptyBankNoSession ==
  /\ app.bank = 0
       => /\ app.window = "none"
          /\ app.frame # "settings"
          /\ app.returned
               => \/ app.result = "None" /\ app.warned
                  \/ app.result = "ValueError"
  /\ app.window = "shown" => Len(app.quiz) > 0

\* start_with_settings_dialog has returned None for an empty bank after
\* its warning
C23_Witness ==
  /\ app.bank = 0
  /\ app.returned
  /\ app.warned
  /\ app.result = "None"

\* the module-level function apply_quiz_settings over the dicts `ids` of
\* quiz_data; its branch "allow_repeats and num_questions > len" comes after
\* the return for num_questions >= len
ModuleApplyQuizSettings(ids, num_questions, allow_repeats) ==
  IF ids = {} THEN {<<>>}
  ELSE IF num_questions <= 0 \/ num_questions >= Cardinality(ids)
    THEN SampleOf(ids, Cardinality(ids))
  ELSE IF allow_repeats /\ num_questions > Cardinality(ids)
    THEN [1..num_questions -> ids]
  ELSE SampleOf(ids, num_questions)

\* C39: for the bank, count and repeat setting a window was built with, the
\* module-level apply_quiz_settings returns results of the same sizes as
\* the method _apply_quiz_settings, and its results are free of repeats
\* exactly when the method's are.
C39_SamePolicy ==
  app.window = "shown" =>
    LET fn == ModuleApplyQuizSettings(1..app.bank, app.count,
                                      app.allow_repeats)
        method == ApplySettings(1..app.bank, app.count, app.allow_repeats)
    IN /\ {Len(q) : q \in fn} = {Len(q) : q \in method}
       /\ (\A q \in fn : \A i, j \in DOMAIN q : i # j => q[i] # q[j])
            <=> (\A q \in method :
                   \A i, j \in DOMAIN q : i # j => q[i] # q[j])


\* ================================================================ review
\* _open_review_dialog, ReviewPopup and its export over a finished session.
\* `review` holds the session (items and stored answers; a stored answer
\* has the type its item's widgets produce) and what the dialog builds from
\* it.  Of a row the texts "correct" and "chosen" are kept; question,
\* explanation and the flag mark are copied through by the code.

\* the option texts in the order sorted() gives them
Lexicon == << "a", "b" >>

\* sorted(S) for a set of option texts
Sorted(S) == SelectSeq(Lexicon, LAMBDA o : o \in S)

\* ", ".join(s) from position i on
RECURSIVE JoinFrom(_, _)
JoinFrom(s, i) ==
  IF i > Len(s) THEN ""
  ELSE IF i = Len(s) THEN s[i]
  ELSE s[i] \o ", " \o JoinFrom(s, i + 1)

\* correct_str of _open_review_dialog
CorrectStr(correct) == JoinFrom(Sorted(correct), 1)

\* chosen_str of _open_review_dialog
ChosenStr(chosen_raw) ==
  IF chosen_raw.kind = "set" THEN JoinFrom(Sorted(chosen_raw.val), 1)
  ELSE IF chosen_raw.kind = "none" THEN "(no answer)"
  ELSE CHOOSE o \in chosen_raw.val : TRUE

\* is_incorrect of ReviewPopup: "chosen.strip() and (chosen != correct)";
\* option texts are stripped and not empty (normalize_quiz_records), so a
\* text built from them is blank exactly when it is empty
IsIncorrect(chosen, correct) == chosen # "" /\ chosen # correct

\* the marker in front of a row ("cross" for the cross mark, "tick" for the
\* check mark)
Marker(chosen, correct) ==
  IF IsIncorrect(chosen, correct) THEN "cross" ELSE "tick"

\* the stored answers the widgets of an item can leave behind
StoredFor(item) ==
  IF item.multi
    THEN {None} \cup {SetOf(S) : S \in SUBSET Range(item.options)}
    ELSE {None} \cup {Str(o) : o \in Range(item.options)}

\* a question with its stored answer
Answers == { p \in [item : GradeItems,
                    stored : {None} \cup {SetOf(S) : S \in SUBSET {"a", "b"}}
                                    \cup {Str("a"), Str("b")}] :
               p.stored \in StoredFor(p.item) }

\* a single-choice question answered right, and the same answered wrong
Scored ==
  { [item |-> [options |-> <<"a", "b">>, answer |-> {"a"}, multi |-> FALSE],
     stored |-> Str(o)] : o \in {"a", "b"} }

\* the finished sessions handed to the review
Finished ==
  UNION { [1..n -> Answers] : n \in 0..MaxReview }
    \cup UNION { [1..n -> Scored] : n \in (MaxReview + 1)..MaxScored }

\* _finish has closed the window; _open_review_dialog is about to run
InitReview ==
  /\ NoSession
  /\ app = Unused
  /\ deck = Unused
  /\ resolve = Unused
  /\ norm = Unused
  /\ notes = Unused
  /\ \E f \in Finished :
        review = [quiz |-> [i \in DOMAIN f |-> f[i].item],
                  user_answers |-> [i \in DOMAIN f |-> f[i].stored],
                  frame |-> "none", items |-> <<>>, score |-> NoScore,
                  labels |-> <<>>, exported |-> FALSE, file |-> <<>>]

\* _open_review_dialog with ReviewPopup.__init__: the rows, the score and
\* the marked labels of the dialog
OpenReviewDialog ==
  /\ review.frame = "none"
  /\ ~review.score.present
  /\ LET items == [i \in DOMAIN review.quiz |->
                     [correct |-> CorrectStr(review.quiz[i].answer),
                      chosen |-> ChosenStr(review.user_answers[i])]]
     IN review' = [review EXCEPT
                     !.frame = "review",
                     !.items = items,
                     !.score = ReviewScore(review.quiz, review.user_answers),
                     !.labels = [i \in DOMAIN items |->
                                   Marker(items[i].chosen, items[i].correct)]]
  /\ last' = "open_review"
  /\ UNCHANGED << state, gw, app, deck, resolve, norm, notes >>

\* ReviewPopup._export_txt with a path chosen: the header and one block per
\* row (without a path it returns at once)
ExportTxt ==
  /\ review.frame = "review"
  /\ review' = [review EXCEPT
                  !.exported = TRUE,
                  !.file = [header |-> << review.score.correct_count,
                                          review.score.total,
                                          review.score.percent >>,
                            entries |->
                              [i \in DOMAIN review.items |->
                                 [marker |-> Marker(review.items[i].chosen,
                                                    review.items[i].correct),
                                  index |-> i,
                                  correct |-> review.items[i].correct,
                                  chosen |-> review.items[i].chosen]]]]
  /\ last' = "export_txt"
  /\ UNCHANGED << state, gw, app, deck, resolve, norm, notes >>

\* ReviewPopup closed with Close
CloseReview ==
  /\ review.frame = "review"
  /\ review' = [review EXCEPT !.frame = "closed"]
  /\ last' = "review_close"
  /\ UNCHANGED << state, gw, app, deck, resolve, norm, notes >>

NextReview ==
  \/ OpenReviewDialog
  \/ ExportTxt
  \/ CloseReview

SpecReview == InitReview /\ [][NextReview]_vars

C25_ChosenText ==
  review.frame = "review" =>
    \A i \in DOMAIN review.items :
       LET stored == review.user_answers[i]
           chosen == review.items[i].chosen
       IN /\ ~Answered(stored) => chosen = "(no answer)"
          /\ (Answered(stored) /\ stored.kind = "str")
               => \E o \in stored.val : chosen = o
          /\ (Answered(stored) /\ stored.kind = "set")
               => chosen = (IF stored.val = {"a", "b"} THEN "a, b"
                            ELSE CHOOSE o \in stored.val : TRUE)

\* C26: in the exported review an entry is marked with the check mark
\* exactly when the review counted the item correct, so the number of check
\* marks is the correct_count of the header.
C26_MarkerIsScore ==
  review.exported =>
    LET entries == review.file.entries
    IN /\ \A i \in DOMAIN entries :
             entries[i].marker = "tick"
               <=> ReviewIsCorrectNow(review.quiz[i].answer,
                                      review.user_answers[i])
       /\ Cardinality({i \in DOMAIN entries : entries[i].marker = "tick"})
            = review.file.header[1]


\* ============================================================== resolver
\* _map_correct_tokens_to_options.  A text is a sequence of characters, so
\* that strip, lower, upper and the substring test are computed.

\* the texts tokens are drawn from: letters inside and outside the letter
\* keys, both cases, two-letter texts, padded and blank text
Texts ==
  { <<"a">>, <<"A">>, <<"b">>, <<"z">>, <<"a", "b">>, <<"A", "b">>,
    <<"z", "a">>, <<"b", "z">>, <<" ", "a">>, <<" ">> }

\* the texts options are drawn from (_clean_option_line strips an option
\* and drops an empty one)
OptionTexts == { t \in Texts : t[1] # " " /\ t[Len(t)] # " " }

\* str.lower and str.upper, character by character
LowerOf(c) ==
  CASE c = "A" -> "a" [] c = "B" -> "b" [] c = "C" -> "c" [] c = "Z" -> "z"
    [] c = "N" -> "n" [] c = "S" -> "s" [] c = "W" -> "w" [] c = "E" -> "e"
    [] c = "R" -> "r" [] c = "I" -> "i" [] OTHER -> c

UpperOf(c) ==
  CASE c = "a" -> "A" [] c = "b" -> "B" [] c = "c" -> "C" [] c = "z" -> "Z"
    [] c = "n" -> "N" [] c = "s" -> "S" [] c = "w" -> "W" [] c = "e" -> "E"
    [] c = "r" -> "R" [] c = "i" -> "I" [] OTHER -> c

Lower(s) == [i \in DOMAIN s |-> LowerOf(s[i])]

Upper(s) == [i \in DOMAIN s |-> UpperOf(s[i])]

\* the whitespace characters of the texts in use
IsSpace(c) == c \in {" ", "\n"}

\* a strip that removes the leading run of whitespace, or, when there is
\* none, the trailing run
StripOnce(s) ==
  IF s = <<>> THEN s
  ELSE IF IsSpace(s[1])
    THEN SubSeq(s, (CHOOSE i \in 1..(Len(s) + 1) :
                      /\ \A j \in 1..(i - 1) : IsSpace(s[j])
                      /\ i <= Len(s) => ~IsSpace(s[i])), Len(s))
  ELSE SubSeq(s, 1, (CHOOSE i \in 0..Len(s) :
                       /\ \A j \in (i + 1)..Len(s) : IsSpace(s[j])
                       /\ i >= 1 => ~IsSpace(s[i])))

\* str.strip
RECURSIVE Strip(_)
Strip(s) ==
  IF s = <<>> THEN s
  ELSE IF IsSpace(s[1]) THEN Strip(Tail(s))
  ELSE IF IsSpace(s[Len(s)]) THEN Strip(SubSeq(s, 1, Len(s) - 1))
  ELSE s

\* "needle in hay" for two str
Contains(hay, needle) ==
  \E i \in 0..(Len(hay) - Len(needle)) :
     SubSeq(hay, i + 1, i + Len(needle)) = needle

\* ord(c) - ord('A') for the capital letters in use, -1 for anything else
LetterPos(c) ==
  CASE c = "A" -> 0 [] c = "B" -> 1 [] c = "C" -> 2 [] c = "E" -> 4
    [] c = "I" -> 8 [] c = "N" -> 13 [] c = "R" -> 17 [] c = "S" -> 18
    [] c = "W" -> 22 [] c = "Z" -> 25 [] OTHER -> -1

\* the text is a key of letter_map: chr(ord('A') + i) for a position i of
\* the option list
IsLetterKey(key, opts) ==
  Len(key) = 1 /\ LetterPos(key[1]) \in 0..(Len(opts) - 1)

\* next((opt for ... if ...), None) over the positions `hits`: the option
\* at the first of them, or the empty text, which "if exact:" and "if sub:"
\* treat like None
FirstAt(opts, hits) ==
  IF hits = {} THEN <<>>
  ELSE opts[CHOOSE i \in hits : \A j \in hits : i <= j]

\* one pass of the loop body with the exact match tried before the letter
\* key
MapTokenExactFirst(t, opts) ==
  LET t_str == Strip(t)
      key == Upper(t_str)
      tl == Lower(t_str)
      exact == FirstAt(opts,
                       {i \in DOMAIN opts : Lower(opts[i]) = tl})
      sub == FirstAt(opts,
                     {i \in DOMAIN opts :
                        \/ Contains(Lower(opts[i]), tl)
                        \/ Contains(tl, Lower(opts[i]))})
  IN IF t_str = <<>> THEN {}
     ELSE IF exact # <<>> THEN {exact}
     ELSE IF IsLetterKey(key, opts)
       THEN {opts[LetterPos(key[1]) + 1]}
     ELSE IF sub # <<>> THEN {sub}
     ELSE {}

\* one pass of the loop body of _map_correct_tokens_to_options: what the
\* token adds to `mapped`
MapToken(t, opts) ==
  LET t_str == Strip(t)
      key == Upper(t_str)
      tl == Lower(t_str)
      exact == FirstAt(opts,
                       {i \in DOMAIN opts : Lower(opts[i]) = tl})
      sub == FirstAt(opts,
                     {i \in DOMAIN opts :
                        \/ Contains(Lower(opts[i]), tl)
                        \/ Contains(tl, Lower(opts[i]))})
  IN IF t_str = <<>> THEN {}
     ELSE IF IsLetterKey(key, opts)
       THEN {opts[LetterPos(key[1]) + 1]}
     ELSE IF exact # <<>> THEN {exact}
     ELSE IF sub # <<>> THEN {sub}
     ELSE {}

\* the loop leaving at the first token that maps to nothing
RECURSIVE MapFromUntilUnmatched(_, _, _, _)
MapFromUntilUnmatched(order, i, opts, mapped) ==
  IF i > Len(order) THEN mapped
  ELSE IF MapToken(order[i], opts) = {} THEN mapped
  ELSE MapFromUntilUnmatched(order, i + 1, opts,
                             mapped \cup MapToken(order[i], opts))

\* the loop "for t in tokens" from position i of the iteration order on
RECURSIVE MapFrom(_, _, _, _)
MapFrom(order, i, opts, mapped) ==
  IF i > Len(order) THEN mapped
  ELSE MapFrom(order, i + 1, opts,
               mapped \cup MapToken(order[i], opts))

\* the orders in which a set can be iterated
Orders(S) ==
  {o \in [1..Cardinality(S) -> S] :
     \A i, j \in 1..Cardinality(S) : i # j => o[i] # o[j]}

\* the option lists and token sets of the calls
OptionLists == UNION { [1..n -> OptionTexts] : n \in 1..MaxOptions }

TokenSets == { T \in SUBSET Texts : Cardinality(T) <= MaxTokens }

\* the arguments of one call
InitResolve ==
  /\ NoSession
  /\ app = Unused
  /\ deck = Unused
  /\ review = Unused
  /\ norm = Unused
  /\ notes = Unused
  /\ \E T \in TokenSets, opts \in OptionLists :
        resolve = [tokens |-> T, options |-> opts, done |-> FALSE,
                   mapped |-> {}, by_token |-> << >>]

\* _map_correct_tokens_to_options(tokens, options) with the set iterated in
\* any order; by_token keeps what each pass added
MapCorrectTokensToOptions ==
  /\ ~resolve.done
  /\ \E order \in Orders(resolve.tokens) :
        resolve' = [resolve EXCEPT
                      !.done = TRUE,
                      !.mapped = IF resolve.tokens = {} THEN {}
                                 ELSE MapFrom(order, 1, resolve.options, {}),
                      !.by_token = [t \in resolve.tokens |->
                                      MapToken(t, resolve.options)]]
  /\ last' = "map_tokens"
  /\ UNCHANGED << state, gw, app, deck, review, norm, notes >>

NextResolve == MapCorrectTokensToOptions

SpecResolve == InitResolve /\ [][NextResolve]_vars

\* C27: a token with an exact case-insensitive match to an option resolves
\* to exactly that option, also when the token is a single letter that is
\* itself the text of an option.
C27_ExactMatchWins ==
  resolve.done =>
    \A t \in resolve.tokens :
       LET exact == {i \in DOMAIN resolve.options :
                       Lower(resolve.options[i]) = Lower(Strip(t))}
       IN exact # {}
            => \E i \in exact : resolve.by_token[t] = {resolve.options[i]}

Slides ==
  { [shapes |-> << <<" ">> >>,
     notes |-> << <<"a">> >>],
    [shapes |-> << <<"z">> >>,
     notes |-> << >>],
    [shapes |-> << <<"z">>, <<"\n">>, <<" ">> >>,
     notes |-> << <<"A">> >>],
    [shapes |-> << <<"z">>, <<"-", " ", "a">>, <<" ", "b", " ">> >>,
     notes |-> << <<" ", "B">> >>],
    [shapes |-> << <<" ">>, <<"z", "\n", "a">>,
                   <<"A", ")", " ", "a", "\n", " ", "\n", "1", ".", " ",
                     "b", "z">> >>,
     notes |-> << <<"a">>, <<" ">>, <<"z">> >>],
    [shapes |-> << <<"z">>, <<"-">> >>,
     notes |-> << <<"b">> >>] }

\* the characters of the classes of _clean_option_line's patterns
Bullets == {"-"}

Letters == {"a", "b", "z", "A", "B", "Z"}

Digits == {"1"}

\* str.lstrip, which is what a greedy \s+ after a matched prefix removes
RECURSIVE LStrip(_)
LStrip(s) ==
  IF s = <<>> THEN s
  ELSE IF IsSpace(s[1]) THEN LStrip(Tail(s))
  ELSE s

\* the length of the run of digits a text starts with
RECURSIVE DigitRun(_)
DigitRun(s) ==
  IF s = <<>> THEN 0
  ELSE IF s[1] \in Digits THEN 1 + DigitRun(Tail(s))
  ELSE 0

\* re.sub(r"^[bullets]\s+", "", s)
SubBullet(s) ==
  IF Len(s) >= 2 /\ s[1] \in Bullets /\ IsSpace(s[2])
    THEN LStrip(Tail(s))
  ELSE s

\* re.sub(r"^([A-Za-z][\)\.]|\d+\.)\s+", "", s)
SubLabel(s) ==
  LET d == DigitRun(s)
  IN IF Len(s) >= 3 /\ s[1] \in Letters /\ s[2] \in {")", "."}
        /\ IsSpace(s[3])
       THEN LStrip(SubSeq(s, 3, Len(s)))
     ELSE IF d >= 1 /\ Len(s) >= d + 2 /\ s[d + 1] = "."
             /\ IsSpace(s[d + 2])
       THEN LStrip(SubSeq(s, d + 2, Len(s)))
     ELSE s

\* _clean_option_line
CleanOptionLine(line) == Strip(SubLabel(SubBullet(Strip(line))))

\* str.splitlines from the text s on, `cur` being the line read so far
RECURSIVE SplitLinesFrom(_, _)
SplitLinesFrom(s, cur) ==
  IF s = <<>> THEN (IF cur = <<>> THEN <<>> ELSE <<cur>>)
  ELSE IF s[1] = "\n" THEN <<cur>> \o SplitLinesFrom(Tail(s), <<>>)
  ELSE SplitLinesFrom(Tail(s), Append(cur, s[1]))

\* [f(x) for x in xs]
RECURSIVE StripAll(_)
StripAll(xs) ==
  IF xs = <<>> THEN <<>>
  ELSE <<Strip(Head(xs))>> \o StripAll(Tail(xs))

\* [x for x in xs if x]
NonEmpty(xs) == SelectSeq(xs, LAMBDA x : x # <<>>)

\* _text_frame_lines
TextFrameLines(text) == NonEmpty(StripAll(SplitLinesFrom(text, <<>>)))

\* the options one shape's lines add: each line cleaned, the empty ones
\* dropped
RECURSIVE CleanLines(_)
CleanLines(lines) ==
  IF lines = <<>> THEN <<>>
  ELSE LET opt == CleanOptionLine(Head(lines))
       IN (IF opt # <<>> THEN <<opt>> ELSE <<>>)
          \o CleanLines(Tail(lines))

\* the loop over the shapes of _collect_question_and_options_from_shapes
\* from shape i on
RECURSIVE CollectFrom(_, _, _, _)
CollectFrom(shapes, i, question, opts) ==
  IF i > Len(shapes) THEN [question |-> question, options |-> opts]
  ELSE LET txt == Strip(shapes[i])
           lines == TextFrameLines(txt)
       IN IF txt = <<>> THEN CollectFrom(shapes, i + 1, question, opts)
          ELSE IF question = <<>>
            THEN CollectFrom(shapes, i + 1, txt, opts)
          ELSE IF Len(lines) <= 1
            THEN CollectFrom(shapes, i + 1, question,
                             opts \o CleanLines(<<txt>>))
          ELSE CollectFrom(shapes, i + 1, question,
                           opts \o CleanLines(lines))

\* _collect_question_and_options_from_shapes
CollectQuestionAndOptions(slide) == CollectFrom(slide.shapes, 1, <<>>, <<>>)

\* the tokens _read_notes_answer_and_reason returns: the pieces stripped,
\* the empty ones dropped
ReadNotes(slide) ==
  {Strip(slide.notes[i]) : i \in DOMAIN slide.notes} \ {<<>>}

\* one record of normalize_quiz_records
NormalizeRecord(item) ==
  [question |-> Strip(item.question),
   options |-> NonEmpty(StripAll(item.options)),
   answer |-> {Strip(x) : x \in item.answer} \ {<<>>},
   multi |-> item.multi]

\* normalize_quiz_records
NormalizeQuizRecords(items) ==
  [i \in DOMAIN items |-> NormalizeRecord(items[i])]

\* [q["options"] for q in items]: the option lists the dicts hold
RECURSIVE OptionsOf(_)
OptionsOf(items) ==
  IF items = <<>> THEN <<>>
  ELSE <<Head(items).options>> \o OptionsOf(Tail(items))

\* the counts the settings dialog can hand over for a bank of n items
Counts(n) == 0..(n + 1)

\* Presentation(pptx_path) opened, no slide read yet
InitCompile ==
  /\ NoSession
  /\ app = Unused
  /\ resolve = Unused
  /\ review = Unused
  /\ norm = Unused
  /\ notes = Unused
  /\ deck = [frame |-> "extract", read |-> 0, quiz_items |-> <<>>,
             bank |-> <<>>, quiz |-> <<>>]

\* one pass of the loop of extract_images_and_prepare_quiz that keeps a
\* slide without a question or without options
ExtractSlideNoSkip(slide) ==
  /\ deck.frame = "extract"
  /\ deck.read < MaxSlides
  /\ LET qo == CollectQuestionAndOptions(slide)
         raw_tokens == ReadNotes(slide)
     IN \E order \in Orders(raw_tokens) :
          LET correct_set == MapFrom(order, 1, qo.options, {})
              item == [question |-> Strip(qo.question),
                       options |-> qo.options,
                       answer |-> correct_set,
                       multi |-> (Cardinality(raw_tokens) > 1)
                                 \/ (Cardinality(correct_set) > 1)]
          IN deck' = [deck EXCEPT !.read = @ + 1,
                                  !.quiz_items = Append(@, item)]
  /\ UNCHANGED << state, gw, app, resolve, review, last, norm, notes >>

\* one pass of the loop "for s_idx, slide in enumerate(prs.slides)" of
\* extract_images_and_prepare_quiz
ExtractSlide(slide) ==
  /\ deck.frame = "extract"
  /\ deck.read < MaxSlides
  /\ LET qo == CollectQuestionAndOptions(slide)
         raw_tokens == ReadNotes(slide)
     IN IF qo.question = <<>> \/ qo.options = <<>>
          THEN deck' = [deck EXCEPT !.read = @ + 1]
        ELSE \E order \in Orders(raw_tokens) :
          LET correct_set == MapFrom(order, 1, qo.options, {})
              item == [question |-> Strip(qo.question),
                       options |-> qo.options,
                       answer |-> correct_set,
                       multi |-> (Cardinality(raw_tokens) > 1)
                                 \/ (Cardinality(correct_set) > 1)]
          IN deck' = [deck EXCEPT !.read = @ + 1,
                                  !.quiz_items = Append(@, item)]
  /\ UNCHANGED << state, gw, app, resolve, review, last, norm, notes >>

\* the last slide is read: extract_images_and_prepare_quiz returns the
\* normalized records, which main_open_pptx_and_run holds as quiz_data
ExtractReturn ==
  /\ deck.frame = "extract"
  /\ deck' = [deck EXCEPT !.frame = "bank",
                          !.bank = NormalizeQuizRecords(deck.quiz_items)]
  /\ UNCHANGED << state, gw, app, resolve, review, last, norm, notes >>

\* main_open_pptx_and_run with no record: the warning, and no window
CompileEmpty ==
  /\ deck.frame = "bank"
  /\ deck.bank = <<>>
  /\ deck' = [deck EXCEPT !.frame = "closed"]
  /\ UNCHANGED << state, gw, app, resolve, review, last, norm, notes >>

\* the settings accepted and QuizMainWindow built on the records: the
\* session is drawn and the options of each of its items are shuffled in
\* place, in the dicts the bank holds too
CompileOpen(count, allow_repeats) ==
  /\ deck.frame = "bank"
  /\ deck.bank # <<>>
  /\ \E q \in ApplySettings(DOMAIN deck.bank, count, allow_repeats) :
       \E o \in ShuffleFrom(1, q, OptionsOf(deck.bank)) :
          deck' = [deck EXCEPT
                     !.frame = "window",
                     !.quiz = q,
                     !.bank = [b \in DOMAIN deck.bank |->
                                 [deck.bank[b] EXCEPT !.options = o[b]]]]
  /\ UNCHANGED << state, gw, app, resolve, review, last, norm, notes >>

NextCompile ==
  \/ \E slide \in Slides : ExtractSlide(slide)
  \/ ExtractReturn
  \/ CompileEmpty
  \/ \E count \in Counts(MaxSlides), allow_repeats \in BOOLEAN :
        CompileOpen(count, allow_repeats)

SpecCompile == InitCompile /\ [][NextCompile]_vars

\* C30: every item of a compiled bank, and every session item after the
\* sampling and the shuffle of its options, has a non-empty question, at
\* least one option, and an answer made of its own options.
C30_ItemsValid ==
  /\ \A b \in DOMAIN deck.bank :
        /\ deck.bank[b].question # <<>>
        /\ Len(deck.bank[b].options) >= 1
        /\ deck.bank[b].answer \subseteq
             {deck.bank[b].options[j] : j \in DOMAIN deck.bank[b].options}
  /\ \A i \in DOMAIN deck.quiz :
        LET item == deck.bank[deck.quiz[i]]
        IN /\ item.question # <<>>
           /\ Len(item.options) >= 1
           /\ \A x \in item.answer :
                 \E j \in DOMAIN item.options : item.options[j] = x

\* a presentation with a skipped slide, whose session shows an item with
\* two answers and its options in another order than on the slide, next to
\* an item none of whose tokens was resolved
C30_Witness ==
  /\ deck.frame = "window"
  /\ deck.read > Len(deck.bank)
  /\ \E i \in DOMAIN deck.quiz :
        /\ deck.bank[deck.quiz[i]].options = << <<"b", "z">>, <<"a">> >>
        /\ deck.bank[deck.quiz[i]].answer = {<<"a">>, <<"b", "z">>}
  /\ \E i \in DOMAIN deck.quiz :
        /\ deck.bank[deck.quiz[i]].options = << <<"-">> >>
        /\ deck.bank[deck.quiz[i]].answer = {}

\* ---------------------------------------------------------------------
\* normalize_quiz_records on one record of any tolerated shape
\* ---------------------------------------------------------------------
\* A Python value is a record of its type and its content: a str holds its
\* text, a list, a tuple and the values of a dict hold a sequence of texts,
\* a set holds a set of texts, a bool its truth value.  A key a dict does
\* not have is Absent, which dict.get turns into None.

Absent == [t |-> "absent", v |-> <<>>]

Py(type, content) == [t |-> type, v |-> content]

\* bool(x)
Truthy(x) ==
  CASE x.t \in {"absent", "none"} -> FALSE
    [] x.t \in {"str", "list", "tuple", "dict"} -> x.v # <<>>
    [] x.t = "set" -> x.v # {}
    [] x.t = "bool" -> x.v

\* the texts of the records
NormTexts == { <<" ">>, <<"a">>, <<" ", "b", " ">> }

\* the lists, tuples and dict values of the records
NormLists == UNION { [1..n -> NormTexts] : n \in 0..MaxOptions }

\* opts = item.get("options") or item.get("answers") or []; the values of
\* a dict; each stripped, the empty ones dropped
NormOptions(item) ==
  LET raw == IF Truthy(item.options) THEN item.options
             ELSE IF Truthy(item.answers) THEN item.answers
             ELSE Py("list", <<>>)
  IN NonEmpty(StripAll(raw.v))

\* correct: from item.get("answer") or set(), by the type of the value
NormCorrect(item) ==
  LET raw == IF Truthy(item.answer) THEN item.answer ELSE Py("set", {})
  IN CASE raw.t = "str" ->
            (IF Strip(raw.v) # <<>> THEN {Strip(raw.v)} ELSE {})
       [] raw.t \in {"list", "tuple"} ->
            {Strip(raw.v[i]) : i \in DOMAIN raw.v} \ {<<>>}
       [] raw.t = "set" -> {Strip(x) : x \in raw.v} \ {<<>>}
       [] OTHER -> {}

\* str(item.get(key, "")).strip() for a key holding a str or missing
NormText(x) == IF x.t = "str" THEN Strip(x.v) ELSE <<>>

\* the body of the loop of normalize_quiz_records: the dict appended for
\* one item
NormalizeItem(item) ==
  LET correct == NormCorrect(item)
  IN [question |-> Py("str", NormText(item.question)),
      options |-> Py("list", NormOptions(item)),
      answers |-> Absent,
      answer |-> Py("set", correct),
      explanation |-> Py("str", NormText(item.explanation)),
      image |-> IF Truthy(item.image) THEN item.image ELSE Py("none", <<>>),
      multi |-> Py("bool", IF item.multi.t = "absent"
                             THEN Cardinality(correct) > 1
                             ELSE Truthy(item.multi))]

\* the content of a value of the given type
Contents(type) ==
  CASE type = "str" -> NormTexts \cup {<<>>}
    [] type \in {"list", "tuple", "dict"} -> NormLists
    [] type = "set" ->
         { S \in SUBSET NormTexts : Cardinality(S) <= MaxTokens }
    [] type = "bool" -> BOOLEAN
    [] OTHER -> {<<>>}

\* one record handed to normalize_quiz_records
InitNormalize ==
  /\ NoSession
  /\ app = Unused
  /\ deck = Unused
  /\ resolve = Unused
  /\ review = Unused
  /\ notes = Unused
  /\ \E ot \in {"absent", "list", "dict"},
        at \in {"absent", "str", "list", "tuple", "set"},
        mt \in {"absent", "bool"},
        rest \in {"absent", "str"} :
       \E ov \in Contents(ot), av \in Contents(at), mv \in Contents(mt),
          alt \in {Absent, Py("list", << <<"a", " ">> >>)} :
          norm = [stage |-> 0,
                  input |-> [question |-> Py(rest, IF rest = "str"
                                                     THEN <<" ", "a">>
                                                     ELSE <<>>),
                             options |-> Py(ot, ov),
                             answers |-> alt,
                             answer |-> Py(at, av),
                             explanation |-> Py(rest, IF rest = "str"
                                                        THEN <<"b", " ">>
                                                        ELSE <<>>),
                             image |-> Py(rest, IF rest = "str"
                                                  THEN <<"z">> ELSE <<>>),
                             multi |-> Py(mt, mv)],
                  once |-> Absent,
                  twice |-> Absent]

\* normalize_quiz_records([item])
NormalizeQuizRecordsOnce ==
  /\ norm.stage = 0
  /\ norm' = [norm EXCEPT !.stage = 1, !.once = NormalizeItem(norm.input)]
  /\ UNCHANGED << state, gw, app, deck, resolve, review, notes, last >>

\* normalize_quiz_records on its own result
NormalizeQuizRecordsAgain ==
  /\ norm.stage = 1
  /\ norm' = [norm EXCEPT !.stage = 2, !.twice = NormalizeItem(norm.once)]
  /\ UNCHANGED << state, gw, app, deck, resolve, review, notes, last >>

NextNormalize ==
  \/ NormalizeQuizRecordsOnce
  \/ NormalizeQuizRecordsAgain

SpecNormalize == InitNormalize /\ [][NextNormalize]_vars

\* C31: normalizing a normalized record gives the same record, whatever the
\* shape of the record first handed in.
C31_Idempotent ==
  norm.stage = 2 => norm.twice = norm.once

\* a record with its options in a dict, its answer in a tuple with a blank
\* and a padded member, normalized twice
C31_Witness ==
  /\ norm.stage = 2
  /\ norm.input.options = Py("dict", << <<" ">>, <<" ", "b", " ">> >>)
  /\ norm.input.answer = Py("tuple", << <<" ", "b", " ">>, <<" ">> >>)
  /\ norm.once.options = Py("list", << <<"b">> >>)
  /\ norm.once.answer = Py("set", {<<"b">>})
  /\ norm.twice = norm.once

\* C32: the normalized multi is true exactly when the record carried a true
\* multi flag or its normalized answer has more than one member.
C32_MultiIsFlagOrSize ==
  norm.stage >= 1 =>
    (norm.once.multi.v <=>
       \/ norm.input.multi.t = "bool" /\ norm.input.multi.v
       \/ Cardinality(norm.once.answer.v) > 1)

\* ---------------------------------------------------------------------
\* _read_notes_answer_and_reason on the notes text of one slide
\* ---------------------------------------------------------------------

\* the notes of a slide have at most this many lines
MaxNoteLines == 3

\* the lines the notes are made of
NoteLines ==
  { <<"A", "n", "s", "w", "e", "r", " ", "i", "s", ":", " ", "B", ";", " ",
      "C">>,
    <<" ", "z", " ">>,
    << >>,
    <<" ">>,
    <<"A", "N", "S", "W", "E", "R", " ", " ", "I", "S", " ", ":", "a", "|">>,
    <<"z", " ", "a", "n", "s", "w", "e", "r", " ", "i", "s", ":", " ">>,
    <<"b", "a", "n", "s", "w", "e", "r", "i", "s", ":", ";">> }

\* "\n".join(lines)
RECURSIVE JoinLines(_)
JoinLines(lines) ==
  IF lines = <<>> THEN <<>>
  ELSE IF Len(lines) = 1 THEN lines[1]
  ELSE lines[1] \o <<"\n">> \o JoinLines(Tail(lines))

\* the first position from k on that holds no whitespace (one past the end
\* if there is none): where a greedy \s* stops
SkipSpace(ln, k) ==
  CHOOSE j \in k..(Len(ln) + 1) :
     /\ \A i \in k..(j - 1) : IsSpace(ln[i])
     /\ j <= Len(ln) => ~IsSpace(ln[j])

\* the word stands at position p of the line, letter case ignored
HasAt(ln, p, word) ==
  /\ p + Len(word) - 1 <= Len(ln)
  /\ Lower(SubSeq(ln, p, p + Len(word) - 1)) = word

\* the pattern answer\s*is\s*:\s*(.+) tried at position p: the position
\* where group 1 starts, 0 if the pattern does not match there.  A \s* that
\* reached the end of the line gives its last character back to (.+).
GroupStart(ln, p) ==
  IF ~HasAt(ln, p, <<"a", "n", "s", "w", "e", "r">>) THEN 0
  ELSE LET k == SkipSpace(ln, p + 6)
       IN IF ~HasAt(ln, k, <<"i", "s">>) THEN 0
          ELSE LET c == SkipSpace(ln, k + 2)
               IN IF ~HasAt(ln, c, <<":">>) THEN 0
                  ELSE LET g == SkipSpace(ln, c + 1)
                       IN IF g <= Len(ln) THEN g
                          ELSE IF g > c + 1 THEN Len(ln)
                          ELSE 0

\* re.search(...): the positions at which the pattern matches
MatchPositions(ln) == {p \in 1..Len(ln) : GroupStart(ln, p) # 0}

\* m.group(1) of the leftmost match
Group1(ln) ==
  LET p == CHOOSE q \in MatchPositions(ln) :
              \A r \in MatchPositions(ln) : q <= r
  IN SubSeq(ln, GroupStart(ln, p), Len(ln))

\* the loop "for idx, ln in enumerate(lines)" taking the last matching line
RECURSIVE FindAnswerLineLast(_, _)
FindAnswerLineLast(lines, idx) ==
  IF idx > Len(lines) THEN 0
  ELSE IF FindAnswerLineLast(lines, idx + 1) # 0
    THEN FindAnswerLineLast(lines, idx + 1)
  ELSE IF MatchPositions(lines[idx]) # {} THEN idx
  ELSE 0

\* the loop "for idx, ln in enumerate(lines)" from line idx on: the index of
\* the first matching line, 0 where the code leaves answer_line_idx at -1
RECURSIVE FindAnswerLine(_, _)
FindAnswerLine(lines, idx) ==
  IF idx > Len(lines) THEN 0
  ELSE IF MatchPositions(lines[idx]) # {} THEN idx
  ELSE FindAnswerLine(lines, idx + 1)

\* the loop "for j in range(answer_line_idx + 1, len(lines))" from line j
\* on: the first non-empty line
RECURSIVE ReasonFrom(_, _)
ReasonFrom(lines, j) ==
  IF j > Len(lines) THEN <<>>
  ELSE IF lines[j] # <<>> THEN lines[j]
  ELSE ReasonFrom(lines, j + 1)

\* _CORRECT_SEP_RE.split(s): the pieces between the separators ; and |,
\* `cur` being the piece read so far (the whitespace the pattern takes
\* around a separator is taken again by the strip of each piece)
RECURSIVE SplitSep(_, _)
SplitSep(s, cur) ==
  IF s = <<>> THEN <<cur>>
  ELSE IF s[1] \in {";", "|"} THEN <<cur>> \o SplitSep(Tail(s), <<>>)
  ELSE SplitSep(Tail(s), Append(cur, s[1]))

\* _read_notes_answer_and_reason: the token set and the reason
ReadNotesAnswerAndReason(text) ==
  LET lines == StripAll(SplitLinesFrom(text, <<>>))
      answer_line_idx == FindAnswerLine(lines, 1)
      answer_str == IF answer_line_idx = 0 THEN <<>>
                    ELSE Strip(Group1(lines[answer_line_idx]))
      reason == IF answer_line_idx = 0 THEN <<>>
                ELSE ReasonFrom(lines, answer_line_idx + 1)
      pieces == NonEmpty(StripAll(SplitSep(answer_str, <<>>)))
  IN [tokens |-> {pieces[i] : i \in DOMAIN pieces}, reason |-> reason]

\* the notes of one slide, whose options are x, y and z
InitNotes ==
  /\ NoSession
  /\ app = Unused
  /\ deck = Unused
  /\ resolve = Unused
  /\ review = Unused
  /\ norm = Unused
  /\ \E n \in 0..MaxNoteLines :
       \E ls \in [1..n -> NoteLines] :
          notes = [text |-> JoinLines(ls), stage |-> "slide", tokens |-> {},
                   reason |-> <<>>, answer |-> {}, multi |-> FALSE]

\* raw_tokens, reason = _read_notes_answer_and_reason(slide)
ReadNotesStep ==
  /\ notes.stage = "slide"
  /\ LET r == ReadNotesAnswerAndReason(notes.text)
     IN notes' = [notes EXCEPT !.stage = "read", !.tokens = r.tokens,
                               !.reason = r.reason]
  /\ UNCHANGED << state, gw, app, deck, resolve, review, norm, last >>

\* the rest of the loop body of extract_images_and_prepare_quiz: the tokens
\* resolved against the options, and the multi flag of the item
CompileNotes ==
  /\ notes.stage = "read"
  /\ \E order \in Orders(notes.tokens) :
        LET correct_set == MapFrom(order, 1,
                                   << <<"x">>, <<"y">>, <<"z">> >>, {})
        IN notes' = [notes EXCEPT
                       !.stage = "item",
                       !.answer = correct_set,
                       !.reason = Strip(notes.reason),
                       !.multi = (Cardinality(notes.tokens) > 1)
                                 \/ (Cardinality(correct_set) > 1)]
  /\ UNCHANGED << state, gw, app, deck, resolve, review, norm, last >>

NextNotes ==
  \/ ReadNotesStep
  \/ CompileNotes

SpecNotes == InitNotes /\ [][NextNotes]_vars

\* C33: the parser takes the first line, top to bottom, that holds
\* "answer is: <rest>" in any letter case; the tokens are the non-empty
\* trimmed pieces of <rest> between ; and |, the explanation is the first
\* non-empty line after that line, or empty; without such a line both the
\* token set and the explanation are empty.
C33_NotesParser ==
  notes.stage = "read" =>
    LET lines == StripAll(SplitLinesFrom(notes.text, <<>>))
        hits == {i \in DOMAIN lines : MatchPositions(lines[i]) # {}}
    IN IF hits = {}
         THEN notes.tokens = {} /\ notes.reason = <<>>
       ELSE LET first == CHOOSE i \in hits : \A j \in hits : i <= j
                later == {j \in DOMAIN lines : j > first /\ lines[j] # <<>>}
                pieces == SplitSep(Strip(Group1(lines[first])), <<>>)
            IN /\ notes.tokens =
                    {Strip(pieces[i]) : i \in DOMAIN pieces} \ {<<>>}
               /\ notes.reason =
                    (IF later = {} THEN <<>>
                     ELSE lines[CHOOSE j \in later : \A k \in later : j <= k])

\* the notes "Answer is: B; C", an empty line, a padded reason line: the
\* item gets the second and third option, the reason without its padding,
\* and multi
C33_Witness ==
  /\ notes.stage = "item"
  /\ notes.text =
       <<"A", "n", "s", "w", "e", "r", " ", "i", "s", ":", " ", "B", ";", " ",
         "C", "\n", "\n", " ", "z", " ">>
  /\ notes.tokens = {<<"B">>, <<"C">>}
  /\ notes.answer = {<<"y">>, <<"z">>}
  /\ notes.reason = <<"z">>
  /\ notes.multi

====
